---------------------------- MODULE Spec2Model ----------------------------
(***************************************************************************)
(* A model of the inference-perf load harness: the multi-turn user        *)
(* session (apis/user_session.py), the schedule generators                 *)
(* (loadgen/load_timer.py), the closed-loop worker caps, the request       *)
(* client (client/vllm_client.py), the stage configuration (config.py),    *)
(* the Prometheus summary and raw collection                               *)
(* (client/metricsclient/prometheus_client/base.py), the report generator  *)
(* (reportgen/base.py), the error counters                                 *)
(* (client/model_servers/client.py), the saving of reports (main.py), the  *)
(* data generators (datagen/shared_prefix_datagen.py, random_datagen.py,   *)
(* dataset_trace_datagen.py, hf_sharegpt_datagen.py) and the per-stage     *)
(* query windows (main.py, prometheus_client/base.py).                     *)
(*                                                                         *)
(* Each subsystem has its own variables, initial condition, next-state     *)
(* relation and specification; the subsystems do not share state.          *)
(***************************************************************************)
EXTENDS Integers, Sequences, FiniteSets, TLC

(***************************************************************************)
(* Bounds                                                                  *)
(***************************************************************************)
NumRounds == 4
MaxRateHalves == 3      \* rates range over 0, 1/2, ..., MaxRateHalves/2 requests per second
MaxDuration == 3        \* durations range over 0..MaxDuration seconds
MaxDraw == 2            \* an exponential draw is 1..MaxDraw (arbitrary unit)
MaxPoissonCount == 2    \* a Poisson draw is 0..MaxPoissonCount
MaxSkip == 1            \* at most MaxSkip consecutive empty seconds of the Poisson timer
MaxTraceLen == 3        \* a trace has 1..MaxTraceLen entries
MaxTraceTime == 2       \* trace offsets range over 0..MaxTraceTime
MaxYields == 5          \* an endless generator is consumed at most MaxYields times
NumWorkers == 3         \* worker processes of the load generator
MaxConcurrency == 4     \* a closed-loop stage asks for 0..MaxConcurrency
MaxStages == 2          \* closed-loop stages run one after the other
MaxPickUps == 5         \* requests picked up over the whole run
NumClientRequests == 3  \* requests handed to the model server client
NumMetrics == 3         \* entries of the metrics metadata
MaxMetricValue == 2     \* a measured value is 0..MaxMetricValue
NumRecords == 2         \* request metrics recorded in the collector
MaxStageId == 1         \* stage ids are 0..MaxStageId
MaxLatency == 2         \* end_time - start_time is 1..MaxLatency
MaxOutputTokens == 1    \* output token counts are 0..MaxOutputTokens
MaxRuns == 2            \* times a report is generated from one collector
MaxTracked == 2         \* metric names in the metrics metadata of collect_raw_metrics
MaxErrors == 3          \* errors counted by one report
MaxStorageClients == 4  \* storage clients of the runner
MaxReports == 3         \* report files handed to save_reports
MaxGroups == 2          \* num_groups is 0..MaxGroups
MaxPromptsPerGroup == 2 \* num_prompts_per_group is 0..MaxPromptsPerGroup
MaxData == 6            \* items taken from get_data
MaxCount == 2           \* a length list or trace file has 0..MaxCount entries
MaxTokenLen == 2        \* token lengths are 1..MaxTokenLen
MaxNext == 4            \* next() is called at most MaxNext times on a generator
MaxItems == 3           \* the dataset has 0..MaxItems items
MaxTaken == 4           \* items taken from the dataset before the last call
MaxInterval == 4        \* load.interval is 1..MaxInterval seconds
MaxScrapeInterval == 2  \* scrape_interval is 1..MaxScrapeInterval seconds
MaxRunStages == 2       \* a run has 1..MaxRunStages stages
MaxStageSeconds == 2    \* a stage lasts 1..MaxStageSeconds seconds
MaxLate == 1            \* a sleep or a query takes 0..MaxLate seconds more

(***************************************************************************)
(* State                                                                   *)
(***************************************************************************)
\* 1. LocalUserSession and the event loop that runs its rounds
VARIABLES
  context,          \* LocalUserSession.context: sequence of rounds whose reply it holds
  current_round,    \* LocalUserSession._current_round
  in_flight,        \* LocalUserSession._in_flight._locked
  lock_waiters,     \* LocalUserSession._in_flight._waiters: futures, head first
  waiting_rounds,   \* LocalUserSession._waiting_rounds: futures, head first
  ready,            \* the event loop's ready queue of round tasks
  pc,               \* where each round task is
  session_context,  \* UserSession*APIData._session_context of each round
  outcome,          \* how the HTTP call of each round ended
  callOrder,        \* history: rounds in the order they called get_context
  admitOrder,       \* history: rounds in the order get_context returned
  written,          \* history: what each round passed to update_context
  releases          \* history: number of update_context calls by each round

sessVars == <<context, current_round, in_flight, lock_waiters, waiting_rounds,
              ready, pc, session_context, outcome, callOrder, admitOrder,
              written, releases>>

\* 2. Stage configuration and schedule generators
VARIABLES
  stage,        \* the LoadStage handed to validation: [rate (halves), duration]
  stage_status, \* "none", "accepted" or "rejected"
  t_kind,       \* which LoadTimer the generator belongs to, "none" before start_timer
  t_rate,       \* self._rate, in halves
  t_duration,   \* self._duration
  t_initial,    \* the `initial` argument of start_timer
  t_pc,         \* "none", "created", "running", "finished" (StopIteration), "diverged"
  t_next,       \* next_time: the base time, then the time yielded last
  t_pending,    \* normalized intervals not yet consumed
  t_trace,      \* self._trace_data / self._timing_pattern
  t_index,      \* index into the trace
  t_prev,       \* history: the time yielded before the last one
  t_count,      \* history: how many times have been yielded
  t_window      \* history of the Poisson timer: the start of the current one-second
                \* window, how many windows were begun, the count drawn for the
                \* current one and how many of its arrivals were yielded

timVars == <<stage, stage_status, t_kind, t_rate, t_duration, t_initial, t_pc,
             t_next, t_pending, t_trace, t_index, t_prev, t_count, t_window>>

\* 3. Closed-loop stages: per-worker concurrency caps
VARIABLES
  w_phase,      \* "between", "setcaps", "issuing", "draining"
  w_stages,     \* number of stages begun
  w_conc,       \* the concurrency of the current stage
  w_setidx,     \* the next worker whose cap the scheduler writes
  w_cap,        \* worker.shared_max_concurrency.value
  w_inflight,   \* requests a worker has dispatched and not completed
  w_pickups     \* requests picked up so far

wrkVars == <<w_phase, w_stages, w_conc, w_setidx, w_cap, w_inflight, w_pickups>>

\* 4. vLLMModelServerClient
VARIABLES
  c_state,          \* per request: "new", "posted", "returned", "raised"
  c_api,            \* per request: the api type of its data
  c_outcome,        \* per request: how the HTTP exchange ended
  request_metrics   \* self.request_metrics: the requests with a metric record

cliVars == <<c_state, c_api, c_outcome, request_metrics>>

\* 5. PrometheusMetricsClient
VARIABLES
  p_status,     \* "idle", "collected" or "raised"
  p_queries,    \* history: how the query of each metric went
  p_metrics     \* the ModelServerMetrics returned: a value or Null per metric

promVars == <<p_status, p_queries, p_metrics>>

\* 6. Request metrics collector and report generation
VARIABLES
  rp_metrics,   \* the collector's list of request metrics
  rp_gen,       \* which report path has run, "none" before the first run
  rp_config,    \* the report configuration of the runs
  rp_scrape,    \* what the metrics client returned to the runs
  rp_before,    \* history: the collector's list when the first run began
  rp_out        \* history: what each run returned

repVars == <<rp_metrics, rp_gen, rp_config, rp_scrape, rp_before, rp_out>>

\* 7. Prometheus clients: execute_query and collect_raw_metrics
VARIABLES
  s_url,        \* the target the client is configured with
  s_status,     \* collect_raw_metrics: "idle", "returned" or "raised"
  s_start,      \* the start_time argument
  s_end,        \* the end_time argument
  s_requests,   \* history: the endpoints contacted, in order
  s_lines,      \* history: the number of metric lines collected
  s_result,     \* what collect_raw_metrics returned
  s_response,   \* history: the server response given to both execute_query
  s_self,       \* how execute_query of the self-hosted client ended
  s_gmp         \* how execute_query of the managed client ended

scrVars == <<s_url, s_status, s_start, s_end, s_requests, s_lines, s_result,
             s_response, s_self, s_gmp>>

\* 8. ErrorsReport
VARIABLES
  e_counters,   \* per report: the six counters
  e_recorded,   \* history: errors recorded into each report, merged ones included
  e_merged      \* history: whether append_report has been called

errVars == <<e_counters, e_recorded, e_merged>>

\* 9. InferencePerfRunner.save_reports
VARIABLES
  st_clients,   \* self.storage_clients: how save_report of each client ends
  st_reports,   \* the number of report files handed over
  st_asked,     \* history: whether save_report of each client was called
  st_status     \* save_reports: "idle", "returned" or "raised"

stoVars == <<st_clients, st_reports, st_asked, st_status>>

\* 10. SharedPrefixDataGenerator
VARIABLES
  d_state,      \* "none", "ready" or "exhausted" (get_data returned)
  d_api,        \* self.api_config.type
  d_multi,      \* self.enable_multi_turn_chat
  d_groups,     \* self.num_groups
  d_per_group,  \* self.num_prompts_per_group
  d_sessions,   \* self.user_sessions: the context type of each session
  d_index,      \* the local i of get_data
  d_yielded,    \* history: the items get_data yielded
  d_requests,   \* history: the session requests loaded, with the payload outcome
  d_flat_output_lens,  \* self.flat_output_lens, in the order of self.prompts
  d_output_len, \* self.output_len, Unset when the object has no such attribute
  d_loaded      \* what the last single-turn load_lazy_data was given and returned

datVars == <<d_state, d_api, d_multi, d_groups, d_per_group, d_sessions, d_index,
             d_yielded, d_requests, d_flat_output_lens, d_output_len, d_loaded>>

\* 11. RandomDataGenerator and DatasetTraceDataGenerator
VARIABLES
  g_kind,            \* "none" or the generator constructed
  g_input_lengths,   \* self.input_lengths, or the input lengths of the entries
  g_output_lengths,  \* self.output_lengths, or the output lengths of the entries
  g_i,               \* the local i of get_data: items yielded so far
  g_last,            \* <<input tokens, max_tokens>> of the last request
  g_status           \* "ready", "yielded", "IndexError" or "StopIteration"

rndVars == <<g_kind, g_input_lengths, g_output_lengths, g_i, g_last, g_status>>

\* 12. HFShareGPTDataGenerator
VARIABLES
  h_state,     \* "none", "ready", or the outcome of the last next() on get_data
  h_api,       \* self.api_config.type
  h_dataset,   \* what load_dataset returns
  h_pos,       \* self.sharegpt_dataset: items consumed from the current iterator
  h_loads,     \* history: calls of load_dataset
  h_taken,     \* history: items _get_next_data returned after construction
  h_examined   \* history: items examined by the last next() on get_data

shaVars == <<h_state, h_api, h_dataset, h_pos, h_loads, h_taken, h_examined>>

\* 13. The user sessions of SharedPrefixDataGenerator
VARIABLES
  u_state,      \* "none" or "ready"
  u_groups,     \* self.num_groups
  u_per_group,  \* self.num_prompts_per_group
  u_sessions,   \* self.user_sessions
  u_picked      \* history: the last data_index resolved and its session

usrVars == <<u_state, u_groups, u_per_group, u_sessions, u_picked>>

\* 14. The per-stage query windows
VARIABLES
  q_pc,              \* "config", "start", "stage", "sleep", "ran", "waited", "reported"
  q_now,             \* the wall clock, in seconds
  q_interval,        \* config.load.interval as the load generator gets it
  q_scrape_interval, \* metrics_client.scrape_interval
  q_per_stage,       \* config.report.prometheus.per_stage
  q_num_stages,      \* len(config.load.stages)
  q_start,           \* start_time of the stage that runs
  q_stages,          \* loadgen.stage_runtime_info
  q_queries          \* history: the per-stage queries, with the time each was issued

queVars == <<q_pc, q_now, q_interval, q_scrape_interval, q_per_stage, q_num_stages,
             q_start, q_stages, q_queries>>

vars == <<sessVars, timVars, wrkVars, cliVars, promVars, repVars, scrVars,
          errVars, stoVars, datVars,
          rndVars,
          shaVars,
          usrVars,
          queVars>>

\* what a step of one subsystem leaves alone
notSession ==
  <<timVars, wrkVars, cliVars, promVars, repVars, scrVars, errVars, stoVars,
    datVars,
    rndVars,
    shaVars,
    usrVars,
    queVars>>
notTimer ==
  <<sessVars, wrkVars, cliVars, promVars, repVars, scrVars, errVars, stoVars,
    datVars,
    rndVars,
    shaVars,
    usrVars,
    queVars>>
notWorkers ==
  <<sessVars, timVars, cliVars, promVars, repVars, scrVars, errVars, stoVars,
    datVars,
    rndVars,
    shaVars,
    usrVars,
    queVars>>
notClient ==
  <<sessVars, timVars, wrkVars, promVars, repVars, scrVars, errVars, stoVars,
    datVars,
    rndVars,
    shaVars,
    usrVars,
    queVars>>
notProm ==
  <<sessVars, timVars, wrkVars, cliVars, repVars, scrVars, errVars, stoVars,
    datVars,
    rndVars,
    shaVars,
    usrVars,
    queVars>>
notReport ==
  <<sessVars, timVars, wrkVars, cliVars, promVars, scrVars, errVars, stoVars,
    datVars,
    rndVars,
    shaVars,
    usrVars,
    queVars>>
notScrape ==
  <<sessVars, timVars, wrkVars, cliVars, promVars, repVars, errVars, stoVars,
    datVars,
    rndVars,
    shaVars,
    usrVars,
    queVars>>
notErrors ==
  <<sessVars, timVars, wrkVars, cliVars, promVars, repVars, scrVars, stoVars,
    datVars,
    rndVars,
    shaVars,
    usrVars,
    queVars>>
notStorage ==
  <<sessVars, timVars, wrkVars, cliVars, promVars, repVars, scrVars, errVars,
    datVars,
    rndVars,
    shaVars,
    usrVars,
    queVars>>
notDatagen ==
  <<sessVars, timVars, wrkVars, cliVars, promVars, repVars, scrVars, errVars,
    stoVars,
    rndVars,
    shaVars,
    usrVars,
    queVars>>
notRandom ==
  <<sessVars, timVars, wrkVars, cliVars, promVars, repVars, scrVars, errVars, stoVars, datVars,
    shaVars,
    usrVars,
    queVars>>
notShareGPT ==
  <<sessVars, timVars, wrkVars, cliVars, promVars, repVars, scrVars, errVars, stoVars, datVars, rndVars,
    usrVars,
    queVars>>
notUserSessions ==
  <<sessVars, timVars, wrkVars, cliVars, promVars, repVars, scrVars, errVars, stoVars, datVars, rndVars, shaVars,
    queVars>>
notStageWindow ==
  <<sessVars, timVars, wrkVars, cliVars, promVars, repVars, scrVars, errVars, stoVars, datVars, rndVars, shaVars, usrVars>>

(***************************************************************************)
(* ---------------------------------------------------------------------- *)
(* 1. LocalUserSession under the asyncio event loop                        *)
(* ---------------------------------------------------------------------- *)
(* One session object, NumRounds round tasks.  The event loop is a FIFO    *)
(* queue of runnable tasks (`ready`); a task runs from one suspension      *)
(* point to the next without interleaving.  Setting a future's result      *)
(* appends the task that awaits it to the end of `ready`.                  *)
(***************************************************************************)
Rounds == 1..NumRounds
NoContext == <<0>>
InitialContext == <<>>

SessionInit ==
  /\ context = InitialContext
  /\ current_round = 0
  /\ in_flight = FALSE
  /\ lock_waiters = <<>>
  /\ waiting_rounds = <<>>
  /\ ready = <<>>
  /\ pc = [r \in Rounds |-> "idle"]
  /\ session_context = [r \in Rounds |-> NoContext]
  /\ outcome = [r \in Rounds |-> "none"]
  /\ callOrder = <<>>
  /\ admitOrder = <<>>
  /\ written = [r \in Rounds |-> NoContext]
  /\ releases = [r \in Rounds |-> 0]

\* get_context, line 29: the condition under which a round enters the waiting queue
MustQueue == waiting_rounds /= <<>> \/ in_flight

\* asyncio.Lock.acquire fast path, without the lock check
CanAcquireNowUnchecked == TRUE

\* asyncio.Lock.acquire fast path: unlocked and no live waiter
CanAcquireNow == ~in_flight /\ lock_waiters = <<>>

\* get_context, lines 34-36, fast path of acquire: the round is admitted
Admit(r) ==
  /\ in_flight' = TRUE
  /\ current_round' = current_round + 1
  /\ session_context' = [session_context EXCEPT ![r] = context]
  /\ admitOrder' = Append(admitOrder, r)
  /\ pc' = [pc EXCEPT ![r] = "http"]

\* get_context, line 34: await self._in_flight.acquire()
Acquire(r) ==
  IF CanAcquireNow
  THEN /\ Admit(r)
       /\ UNCHANGED lock_waiters
  ELSE /\ lock_waiters' = Append(lock_waiters, [task |-> r, done |-> FALSE])
       /\ pc' = [pc EXCEPT ![r] = "await_lock"]
       /\ UNCHANGED <<in_flight, current_round, session_context, admitOrder>>

\* The load generator creates the task of a round
Spawn(r) ==
  /\ pc[r] = "idle"
  /\ pc' = [pc EXCEPT ![r] = "created"]
  /\ ready' = Append(ready, r)
  /\ UNCHANGED <<context, current_round, in_flight, lock_waiters, waiting_rounds,
                 session_context, outcome, callOrder, admitOrder, written, releases>>
  /\ UNCHANGED notSession

\* to_payload -> get_context, lines 28-33, run by the task at the head of ready
GetContext(r) ==
  /\ ready /= <<>> /\ Head(ready) = r
  /\ pc[r] = "created"
  /\ callOrder' = Append(callOrder, r)
  /\ ready' = Tail(ready)
  /\ IF MustQueue
     THEN /\ waiting_rounds' = Append(waiting_rounds, r)
          /\ pc' = [pc EXCEPT ![r] = "await_future"]
          /\ UNCHANGED <<in_flight, lock_waiters, current_round, session_context, admitOrder>>
     ELSE /\ Acquire(r)
          /\ UNCHANGED waiting_rounds
  /\ UNCHANGED <<context, outcome, written, releases>>
  /\ UNCHANGED notSession

\* get_context resumes after `await future` (line 33) and goes on to acquire
ResumeFromFuture(r) ==
  /\ ready /= <<>> /\ Head(ready) = r
  /\ pc[r] = "woken_future"
  /\ ready' = Tail(ready)
  /\ Acquire(r)
  /\ UNCHANGED <<context, waiting_rounds, outcome, callOrder, written, releases>>
  /\ UNCHANGED notSession

\* asyncio.Lock.acquire resumes after `await fut`: leaves the waiters, takes the lock
ResumeFromLock(r) ==
  /\ ready /= <<>> /\ Head(ready) = r
  /\ pc[r] = "woken_lock"
  /\ ready' = Tail(ready)
  /\ lock_waiters' = SelectSeq(lock_waiters, LAMBDA w : w.task /= r)
  /\ Admit(r)
  /\ UNCHANGED <<context, waiting_rounds, outcome, callOrder, written, releases>>
  /\ UNCHANGED notSession

\* The HTTP call of an admitted round ends; its task becomes runnable
Respond(r, o) ==
  /\ pc[r] = "http"
  /\ outcome' = [outcome EXCEPT ![r] = o]
  /\ pc' = [pc EXCEPT ![r] = "responded"]
  /\ ready' = Append(ready, r)
  /\ UNCHANGED <<context, current_round, in_flight, lock_waiters, waiting_rounds,
                 session_context, callOrder, admitOrder, written, releases>>
  /\ UNCHANGED notSession

\* asyncio.Lock._wake_up_first: the head waiter's future, if not done yet
WakeLockWaiter == lock_waiters /= <<>> /\ ~Head(lock_waiters).done

\* update_context, lines 38-45, called by round r with `response`
UpdateContext(r, response) ==
  LET wakeF == waiting_rounds /= <<>>
      f     == Head(waiting_rounds)
      wakeL == WakeLockWaiter
      l     == Head(lock_waiters).task
      r1    == Tail(ready)
      r2    == IF wakeF THEN Append(r1, f) ELSE r1
      r3    == IF wakeL THEN Append(r2, l) ELSE r2
  IN IF wakeF /\ pc[f] = "cancelled"
     THEN \* line 43: set_result on the future of a cancelled task raises
          \* InvalidStateError; line 45, the release, is not reached
          /\ context' = response
          /\ written' = [written EXCEPT ![r] = response]
          /\ waiting_rounds' = Tail(waiting_rounds)
          /\ ready' = r1
          /\ pc' = [pc EXCEPT ![r] = "raised"]
          /\ UNCHANGED <<releases, in_flight, lock_waiters>>
     ELSE
     /\ context' = response
     /\ written' = [written EXCEPT ![r] = response]
     /\ releases' = [releases EXCEPT ![r] = @ + 1]
     /\ waiting_rounds' = IF wakeF THEN Tail(waiting_rounds) ELSE waiting_rounds
     /\ in_flight' = FALSE
     /\ lock_waiters' = IF wakeL
                        THEN <<[task |-> l, done |-> TRUE]>> \o Tail(lock_waiters)
                        ELSE lock_waiters
     /\ ready' = r3
     /\ pc' = [q \in Rounds |->
                 IF q = r THEN "done"
                 ELSE IF wakeF /\ q = f THEN "woken_future"
                 ELSE IF wakeL /\ q = l THEN "woken_lock"
                 ELSE pc[q]]

\* A failure handler that records the request but leaves the session alone
process_failure_norelease(r) ==
  /\ releases' = releases
  /\ written' = written
  /\ context' = context
  /\ waiting_rounds' = waiting_rounds
  /\ in_flight' = in_flight
  /\ lock_waiters' = lock_waiters
  /\ ready' = Tail(ready)
  /\ pc' = [pc EXCEPT ![r] = "done"]

\* A failure handler that leaves the failed turn in the context
process_failure_keeps_turn(r) == UpdateContext(r, Append(session_context[r], r))

\* UserSession*APIData.process_response: the new context is the old one plus this turn
process_response(r) == UpdateContext(r, Append(session_context[r], r))

\* UserSession*APIData.process_failure: the context of the last round is written back
process_failure(r) == UpdateContext(r, session_context[r])

\* The request engine hands the finished call to exactly one of the two handlers
Record(r) ==
  /\ ready /= <<>> /\ Head(ready) = r
  /\ pc[r] = "responded"
  /\ IF outcome[r] = "ok" THEN process_response(r) ELSE process_failure(r)
  /\ UNCHANGED <<current_round, session_context, outcome, callOrder, admitOrder>>
  /\ UNCHANGED notSession

SessionNext ==
  \/ \E r \in Rounds : Spawn(r)
  \/ \E r \in Rounds : GetContext(r)
  \/ \E r \in Rounds : ResumeFromFuture(r)
  \/ \E r \in Rounds : ResumeFromLock(r)
  \/ \E r \in Rounds, o \in {"ok", "fail"} : Respond(r, o)
  \/ \E r \in Rounds : Record(r)

\* The task of a round is cancelled while it waits at line 33: the task ends
\* with CancelledError and the future it awaited, now cancelled, stays in
\* _waiting_rounds
Cancel(r) ==
  /\ pc[r] = "await_future"
  /\ pc' = [pc EXCEPT ![r] = "cancelled"]
  /\ UNCHANGED <<context, current_round, in_flight, lock_waiters, waiting_rounds,
                 ready, session_context, outcome, callOrder, admitOrder, written,
                 releases>>
  /\ UNCHANGED notSession

\* The session with at most one cancellation at a time among NumRounds rounds
SessionCancelNext ==
  \/ SessionNext
  \/ \E r \in Rounds : Cancel(r)

\* The event loop runs every runnable task, every HTTP call ends and every
\* finished call is recorded; nothing obliges the load generator to create a
\* task or anyone to cancel one
SessionFairness ==
  /\ WF_vars(\E r \in Rounds : GetContext(r))
  /\ WF_vars(\E r \in Rounds : ResumeFromFuture(r))
  /\ WF_vars(\E r \in Rounds : ResumeFromLock(r))
  /\ WF_vars(\E r \in Rounds, o \in {"ok", "fail"} : Respond(r, o))
  /\ WF_vars(\E r \in Rounds : Record(r))


(***************************************************************************)
(* ---------------------------------------------------------------------- *)
(* 2. Stage configuration and schedule generators                          *)
(* ---------------------------------------------------------------------- *)
(* Times are exact rationals <<numerator, denominator>> in lowest terms.   *)
(* Rates are kept in halves of a request per second.                       *)
(***************************************************************************)
RECURSIVE GCD(_, _)
GCD(a, b) == IF b = 0 THEN a ELSE GCD(b, a % b)

Rat(n, d) == LET g == GCD(n, d) IN IF g = 0 THEN <<0, 1>> ELSE <<n \div g, d \div g>>
RatOfInt(n) == <<n, 1>>
RatAdd(x, y) == Rat(x[1] * y[2] + y[1] * x[2], x[2] * y[2])
RatLeq(x, y) == x[1] * y[2] <= y[1] * x[2]

RECURSIVE SumSeq(_)
SumSeq(s) == IF s = <<>> THEN 0 ELSE Head(s) + SumSeq(Tail(s))

TimerInit ==
  /\ stage = [rate |-> 0, duration |-> 0]
  /\ stage_status = "none"
  /\ t_kind = "none"
  /\ t_rate = 0
  /\ t_duration = 0
  /\ t_initial = 0
  /\ t_pc = "none"
  /\ t_next = RatOfInt(0)
  /\ t_pending = <<>>
  /\ t_trace = <<>>
  /\ t_index = 0
  /\ t_prev = RatOfInt(0)
  /\ t_count = 0
  /\ t_window = [start |-> RatOfInt(0), begun |-> 0, k |-> 0, emitted |-> 0]

\* config.py LoadStage: `rate: int`, `duration: int`; an integral value is accepted
LoadStageValid(rh, d) == rh % 2 = 0

\* Validation of one stage of the configuration
ValidateStage(rh, d) ==
  /\ stage_status = "none" /\ t_kind = "none"
  /\ stage' = [rate |-> rh, duration |-> d]
  /\ stage_status' = IF LoadStageValid(rh, d) THEN "accepted" ELSE "rejected"
  /\ UNCHANGED <<t_kind, t_rate, t_duration, t_initial, t_pc, t_next, t_pending,
                 t_trace, t_index, t_prev, t_count, t_window>>
  /\ UNCHANGED notTimer

\* start_timer of a freshly constructed timer: a generator object, nothing has run yet
NewGenerator(kind, rh, d, trace, initial) ==
  /\ t_kind' = kind
  /\ t_rate' = rh
  /\ t_duration' = d
  /\ t_trace' = trace
  /\ t_initial' = initial
  /\ t_pc' = "created"
  /\ t_next' = RatOfInt(initial)
  /\ t_pending' = <<>>
  /\ t_index' = 0
  /\ t_prev' = RatOfInt(initial)
  /\ t_count' = 0
  /\ t_window' = [start |-> RatOfInt(initial), begun |-> 0, k |-> 0, emitted |-> 0]

\* The load generator starts the timer of an accepted stage
StartStageTimer(kind, initial) ==
  /\ stage_status = "accepted" /\ t_kind = "none"
  /\ kind \in {"constant", "poisson"}
  /\ NewGenerator(kind, stage.rate, stage.duration, <<>>, initial)
  /\ UNCHANGED <<stage, stage_status>>
  /\ UNCHANGED notTimer

\* ConstantLoadTimer(rate, duration).start_timer(initial) with a fractional rate
StartConstantTimer(rh, d, initial) ==
  /\ stage_status = "none" /\ t_kind = "none"
  /\ NewGenerator("constant", rh, d, <<>>, initial)
  /\ UNCHANGED <<stage, stage_status>>
  /\ UNCHANGED notTimer

\* Non-decreasing sequences of trace offsets
SortedTraces ==
  {tr \in UNION {[1..n -> 0..MaxTraceTime] : n \in 1..MaxTraceLen} :
     \A i \in 1..(Len(tr) - 1) : tr[i] <= tr[i + 1]}

\* TraceLoadTimer(trace).start_timer / StreamingTraceLoadTimer(analyzer).start_timer
StartTraceTimer(kind, trace, initial) ==
  /\ stage_status = "none" /\ t_kind = "none"
  /\ kind \in {"trace", "streaming"}
  /\ NewGenerator(kind, 0, 0, trace, initial)
  /\ UNCHANGED <<stage, stage_status>>
  /\ UNCHANGED notTimer

\* A request count rounded up instead of truncated
NumRequestsCeil(rh, d) == (rh * d + 1) \div 2

\* load_timer.py line 47: num_requests = int(self._rate * self._duration)
NumRequests(rh, d) == (rh * d) \div 2

\* load_timer.py lines 55-57: intervals * (duration / sum(intervals))
Normalized(draws, d) == [i \in 1..Len(draws) |-> Rat(draws[i] * d, SumSeq(draws))]

Yield(t) ==
  /\ t_next' = t
  /\ t_prev' = t_next
  /\ t_count' = t_count + 1

\* next() on a ConstantLoadTimer generator, lines 46-63
ConstantNext ==
  /\ t_kind = "constant"
  /\ \/ /\ t_pc = "created"
        /\ LET n == NumRequests(t_rate, t_duration)
           IN IF n = 0
              THEN /\ t_pc' = "finished"
                   /\ UNCHANGED <<t_next, t_pending, t_prev, t_count>>
              ELSE \E draws \in [1..n -> 1..MaxDraw] :
                     LET iv == Normalized(draws, t_duration)
                     IN /\ Yield(RatAdd(t_next, iv[1]))
                        /\ t_pending' = Tail(iv)
                        /\ t_pc' = "running"
     \/ /\ t_pc = "running"
        /\ IF t_pending = <<>>
           THEN /\ t_pc' = "finished"
                /\ UNCHANGED <<t_next, t_pending, t_prev, t_count>>
           ELSE /\ Yield(RatAdd(t_next, Head(t_pending)))
                /\ t_pending' = Tail(t_pending)
                /\ UNCHANGED t_pc
  /\ UNCHANGED <<stage, stage_status, t_kind, t_rate, t_duration, t_initial,
                 t_trace, t_index, t_window>>
  /\ UNCHANGED notTimer

\* A window of two seconds
WindowDurationTwo == 1 + 1

\* load_timer.py line 87: ConstantLoadTimer(req_count, 1.0)
WindowDuration == 1

\* numpy poisson(rate): 0 for rate 0, any count otherwise
PoissonDraws(rh) == IF rh = 0 THEN {0} ELSE 0..MaxPoissonCount

\* next() on a PoissonLoadTimer generator, lines 72-91: runs the loop up to its
\* next yield; with no positive draw ever, the call does not return
PoissonNext ==
  /\ t_kind = "poisson"
  /\ t_pc \in {"created", "running"}
  /\ t_count < MaxYields
  /\ IF t_pending /= <<>>
     THEN /\ Yield(RatAdd(t_next, Head(t_pending)))
          /\ t_pending' = Tail(t_pending)
          /\ t_pc' = "running"
          /\ t_window' = [t_window EXCEPT !.emitted = @ + 1]
     ELSE IF PoissonDraws(t_rate) = {0}
     THEN /\ t_pc' = "diverged"
          /\ UNCHANGED <<t_next, t_pending, t_prev, t_count, t_window>>
     ELSE \E skip \in 0..MaxSkip, k \in PoissonDraws(t_rate) \ {0} :
            \E draws \in [1..NumRequests(2 * k, WindowDuration) -> 1..MaxDraw] :
              LET iv == Normalized(draws, WindowDuration)
                  base == RatAdd(t_next, RatOfInt(skip))
              IN /\ Yield(RatAdd(base, iv[1]))
                 /\ t_pending' = Tail(iv)
                 /\ t_pc' = "running"
                 /\ t_window' = [start |-> base, begun |-> t_window.begun + skip + 1,
                                 k |-> k, emitted |-> 1]
  /\ UNCHANGED <<stage, stage_status, t_kind, t_rate, t_duration, t_initial,
                 t_trace, t_index>>
  /\ UNCHANGED notTimer

\* next() on a TraceLoadTimer / StreamingTraceLoadTimer generator, lines 105-110 / 130-135
TraceNext ==
  /\ t_kind \in {"trace", "streaming"}
  /\ t_pc \in {"created", "running"}
  /\ t_count < MaxYields
  /\ LET index == IF t_index >= Len(t_trace) THEN 0 ELSE t_index
     IN /\ Yield(RatOfInt(t_initial + t_trace[index + 1]))
        /\ t_index' = index + 1
  /\ t_pc' = "running"
  /\ UNCHANGED <<stage, stage_status, t_kind, t_rate, t_duration, t_initial,
                 t_trace, t_pending, t_window>>
  /\ UNCHANGED notTimer

TimerNext ==
  \/ \E rh \in 0..MaxRateHalves, d \in 0..MaxDuration : ValidateStage(rh, d)
  \/ \E kind \in {"constant", "poisson"}, initial \in 0..1 : StartStageTimer(kind, initial)
  \/ \E rh \in 0..MaxRateHalves, d \in 0..MaxDuration, initial \in 0..1 :
       StartConstantTimer(rh, d, initial)
  \/ \E kind \in {"trace", "streaming"}, trace \in SortedTraces, initial \in 0..1 :
       StartTraceTimer(kind, trace, initial)
  \/ ConstantNext
  \/ PoissonNext
  \/ TraceNext


(***************************************************************************)
(* ---------------------------------------------------------------------- *)
(* 3. Closed-loop stages: per-worker concurrency caps                      *)
(* ---------------------------------------------------------------------- *)
(***************************************************************************)
Workers == 0..(NumWorkers - 1)

RECURSIVE SumUpTo(_, _)
SumUpTo(f, n) == IF n < 0 THEN 0 ELSE f[n] + SumUpTo(f, n - 1)
TotalInFlight == SumUpTo(w_inflight, NumWorkers - 1)
TotalCap == SumUpTo(w_cap, NumWorkers - 1)

WorkersInit ==
  /\ w_phase = "between"
  /\ w_stages = 0
  /\ w_conc = 0
  /\ w_setidx = 0
  /\ w_cap = [w \in Workers |-> 0]
  /\ w_inflight = [w \in Workers |-> 0]
  /\ w_pickups = 0

\* A split that rounds every worker's share up
WorkerCapRoundUp(i, n, w) == (n + w - 1) \div w

\* _set_worker_concurrency: the share of worker i of n over w workers
WorkerCap(i, n, w) == (n \div w) + (IF i < n % w THEN 1 ELSE 0)

\* A pick-up that admits one request more than the cap
CanPickUpOffByOne(w) == w_inflight[w] <= w_cap[w]

\* A worker may pick up work iff its in-flight count is below its cap
CanPickUp(w) == w_inflight[w] < w_cap[w]

\* The scheduler begins a closed-loop stage with concurrency n
BeginStage(n) ==
  /\ w_phase = "between" /\ w_stages < MaxStages
  /\ w_phase' = "setcaps"
  /\ w_stages' = w_stages + 1
  /\ w_conc' = n
  /\ w_setidx' = 0
  /\ UNCHANGED <<w_cap, w_inflight, w_pickups>>
  /\ UNCHANGED notWorkers

\* _set_worker_concurrency writes one worker's shared value
SetCap ==
  /\ w_phase = "setcaps"
  /\ w_cap' = [w_cap EXCEPT ![w_setidx] = WorkerCap(w_setidx, w_conc, NumWorkers)]
  /\ IF w_setidx + 1 = NumWorkers
     THEN w_phase' = "issuing" /\ w_setidx' = 0
     ELSE w_phase' = w_phase /\ w_setidx' = w_setidx + 1
  /\ UNCHANGED <<w_stages, w_conc, w_inflight, w_pickups>>
  /\ UNCHANGED notWorkers

\* A worker compares its in-flight count with its cap and increments it
PickUp(w) ==
  /\ w_phase = "issuing" /\ w_pickups < MaxPickUps
  /\ CanPickUp(w)
  /\ w_inflight' = [w_inflight EXCEPT ![w] = @ + 1]
  /\ w_pickups' = w_pickups + 1
  /\ UNCHANGED <<w_phase, w_stages, w_conc, w_setidx, w_cap>>
  /\ UNCHANGED notWorkers

\* A request of worker w completes
Complete(w) ==
  /\ w_inflight[w] > 0
  /\ w_inflight' = [w_inflight EXCEPT ![w] = @ - 1]
  /\ UNCHANGED <<w_phase, w_stages, w_conc, w_setidx, w_cap, w_pickups>>
  /\ UNCHANGED notWorkers

\* The request count or the duration of the stage is reached
StopIssuing ==
  /\ w_phase = "issuing"
  /\ w_phase' = "draining"
  /\ UNCHANGED <<w_stages, w_conc, w_setidx, w_cap, w_inflight, w_pickups>>
  /\ UNCHANGED notWorkers

\* Stage boundary: every request has completed, or the drain timeout
\* elapsed and the requests still in flight are cancelled and recorded
EndStage ==
  /\ w_phase = "draining"
  /\ w_inflight' = [w \in Workers |-> 0]
  /\ w_phase' = "between"
  /\ UNCHANGED <<w_stages, w_conc, w_setidx, w_cap, w_pickups>>
  /\ UNCHANGED notWorkers

WorkersNext ==
  \/ \E n \in 0..MaxConcurrency : BeginStage(n)
  \/ SetCap
  \/ \E w \in Workers : PickUp(w)
  \/ \E w \in Workers : Complete(w)
  \/ StopIssuing
  \/ EndStage

(***************************************************************************)
(* ---------------------------------------------------------------------- *)
(* 4. vLLMModelServerClient.process_request                                *)
(* ---------------------------------------------------------------------- *)
(***************************************************************************)
Requests == 1..NumClientRequests
ApiTypes == {"completion", "chat", "other"}
HttpOutcomes == {"ok_200", "bad_body_200", "other_2xx", "status_4xx", "status_5xx",
                 "timeout", "connector_error", "other_error"}

ClientInit ==
  /\ c_state = [r \in Requests |-> "new"]
  /\ c_api = [r \in Requests |-> "none"]
  /\ c_outcome = [r \in Requests |-> "none"]
  /\ request_metrics = <<>>

\* _create_payload, lines 234-250: raises for an api type it does not know
PayloadRaises(api) == api \notin {"completion", "chat"}

\* process_request, lines 252-258: builds the payload and posts it
Post(r, api) ==
  /\ c_state[r] = "new"
  /\ c_api' = [c_api EXCEPT ![r] = api]
  /\ c_state' = [c_state EXCEPT ![r] = IF PayloadRaises(api) THEN "raised" ELSE "posted"]
  /\ UNCHANGED <<c_outcome, request_metrics>>
  /\ UNCHANGED notClient

\* process_request, lines 259-288: a metric is appended only for a parsed 200 response
RecordsMetric(o) == o = "ok_200"

\* process_request, lines 257-292: only ClientConnectorError is caught; a body
\* that does not parse, a timeout or any other error leaves the coroutine
Raises(o) == o \in {"bad_body_200", "timeout", "other_error"}

\* process_request, lines 258-292: the exchange ends with outcome o
Finish(r, o) ==
  /\ c_state[r] = "posted"
  /\ c_outcome' = [c_outcome EXCEPT ![r] = o]
  /\ request_metrics' = IF RecordsMetric(o) THEN Append(request_metrics, r)
                        ELSE request_metrics
  /\ c_state' = [c_state EXCEPT ![r] = IF Raises(o) THEN "raised" ELSE "returned"]
  /\ UNCHANGED c_api
  /\ UNCHANGED notClient

ClientNext ==
  \/ \E r \in Requests, api \in ApiTypes : Post(r, api)
  \/ \E r \in Requests, o \in HttpOutcomes : Finish(r, o)

(***************************************************************************)
(* ---------------------------------------------------------------------- *)
(* 5. PrometheusMetricsClient: summary collection                          *)
(* ---------------------------------------------------------------------- *)
(***************************************************************************)
Metrics == 1..NumMetrics
Null == -1              \* Python None; measured values are never negative
FieldDefault == 0
FailureKinds == {"transport_error", "http_error", "bad_status", "empty_result",
                 "unparsable"}
\* how one query can go: a failure, a body that is not JSON, or a value
QueryResults ==
  [kind : FailureKinds \cup {"invalid_json"}, value : {0}]
    \cup [kind : {"value"}, value : 0..MaxMetricValue]

PromInit ==
  /\ p_status = "idle"
  /\ p_queries = [m \in Metrics |-> [kind |-> "none", value |-> 0]]
  /\ p_metrics = [m \in Metrics |-> FieldDefault]

\* execute_query, lines 463: response.json() outside the try block
ExecuteQueryRaises(q) == q.kind = "invalid_json"

\* execute_query, lines 421-485: the value, or query_result = 0.0 on every failure
execute_query(q) == IF q.kind = "value" THEN q.value ELSE 0

\* get_model_server_metrics, lines 409-417: a None result is skipped, any other is stored
StoredMetric(old, result) == IF result = Null THEN old ELSE result

\* collect_metrics_summary / collect_metrics_for_stage -> get_model_server_metrics
Collect(qs) ==
  /\ p_status = "idle"
  /\ p_queries' = qs
  /\ IF \E m \in Metrics : ExecuteQueryRaises(qs[m])
     THEN /\ p_status' = "raised"
          /\ UNCHANGED p_metrics
     ELSE /\ p_status' = "collected"
          /\ p_metrics' = [m \in Metrics |-> StoredMetric(p_metrics[m], execute_query(qs[m]))]
  /\ UNCHANGED notProm

PromNext == \E qs \in [Metrics -> QueryResults] : Collect(qs)


(***************************************************************************)
(* ---------------------------------------------------------------------- *)
(* 6. Request metrics collector and report generation                      *)
(* ---------------------------------------------------------------------- *)
(* The collector is a list of request metrics.  Three report paths read    *)
(* it: ReportGenerator.generate_reports (reportgen/base.py),               *)
(* ObservedMetricsReportConfig.get_report (config.py) and                  *)
(* LlmCompletionPrompt.summarize_requests (datagen/base.py).  A statistic  *)
(* over a list is kept as <<count, min, max, sum>> of exact rationals;     *)
(* <<>> stands for None.                                                   *)
(***************************************************************************)
NoStage == -1       \* stage_id is None
NoTokens == -1      \* info.output_tokens is None
NoSummary == <<>>   \* summarize() of an empty list

\* A request metric as the model server client records it
RequestLifecycleMetric ==
  [stage_id : {NoStage} \cup (0..MaxStageId),
   error : BOOLEAN,
   latency : 1..MaxLatency,                 \* end_time - start_time
   output_tokens : {NoTokens} \cup (0..MaxOutputTokens),  \* info.output_tokens
   prompt : {TRUE}, output : {TRUE}]        \* the attributes are present

RECURSIVE RatSumSeq(_)
RatSumSeq(items) ==
  IF items = <<>> THEN RatOfInt(0) ELSE RatAdd(Head(items), RatSumSeq(Tail(items)))

RatMin(items) ==
  CHOOSE x \in {items[i] : i \in 1..Len(items)} :
    \A j \in 1..Len(items) : RatLeq(x, items[j])

RatMax(items) ==
  CHOOSE x \in {items[i] : i \in 1..Len(items)} :
    \A j \in 1..Len(items) : RatLeq(items[j], x)

\* reportgen/base.py lines 35-47: mean, min, percentiles and max of a non-empty
\* list, None for an empty one
summarize(items) ==
  IF Len(items) /= 0
  THEN <<Len(items), RatMin(items), RatMax(items), RatSumSeq(items)>>
  ELSE NoSummary

\* reportgen/base.py lines 27-32
safe_float(value) == IF value = NoTokens THEN 0 ELSE value

\* [f(x) for x in metrics]
MapSeq(f(_), metrics) == [i \in 1..Len(metrics) |-> f(metrics[i])]

IsSuccess(x) == ~x.error
IsFailure(x) == x.error
HasOutputTokens(x) == x.output_tokens /= NoTokens
RequestLatency(x) == RatOfInt(x.latency)
OutputLen(x) == RatOfInt(x.output_tokens)
PerTokenLatency(x) ==
  LET output_len == safe_float(x.output_tokens)
  IN IF output_len /= 0 THEN Rat(x.latency, output_len) ELSE RatOfInt(0)

\* reportgen/base.py lines 96-121
summarize_requests(metrics) ==
  LET all_successful == SelectSeq(metrics, IsSuccess)
      all_failed == SelectSeq(metrics, IsFailure)
  IN [load_summary |-> [count |-> Len(metrics)],
      successes |->
        [count |-> Len(all_successful),
         request_latency |-> summarize(MapSeq(RequestLatency, all_successful)),
         output_len |-> summarize(MapSeq(OutputLen, SelectSeq(all_successful, HasOutputTokens))),
         normalized_time_per_output_token |-> summarize(MapSeq(PerTokenLatency, all_successful))],
      failures |->
        [count |-> Len(all_failed),
         request_latency |-> summarize(MapSeq(RequestLatency, all_failed))]]

\* datagen/base.py lines 86-117, LlmCompletionPrompt.summarize_requests: the
\* time_per_request of the successes is taken over `metrics` (line 97)
prompt_summarize_requests(metrics) ==
  LET all_successful == SelectSeq(metrics, IsSuccess)
      all_failed == SelectSeq(metrics, IsFailure)
  IN [load_summary |->
        [count |-> Len(metrics),
         time_per_request |-> summarize(MapSeq(RequestLatency, metrics))],
      successes |->
        [count |-> Len(all_successful),
         time_per_request |-> summarize(MapSeq(RequestLatency, metrics)),
         output_len |-> summarize(MapSeq(OutputLen, SelectSeq(all_successful, HasOutputTokens))),
         per_token_latency |-> summarize(MapSeq(PerTokenLatency, all_successful))],
      failures |->
        [count |-> Len(all_failed),
         time_per_request |-> summarize(MapSeq(RequestLatency, all_failed))]]

\* reportgen/base.py lines 155-158: the stage ids in the order in which
\* stage_buckets first sees them
RECURSIVE StageOrder(_)
StageOrder(metrics) ==
  IF metrics = <<>> THEN <<>>
  ELSE LET before == StageOrder(SubSeq(metrics, 1, Len(metrics) - 1))
           s == metrics[Len(metrics)].stage_id
       IN IF s = NoStage \/ \E i \in 1..Len(before) : before[i] = s
          THEN before ELSE Append(before, s)

\* reportgen/base.py lines 155-158: stage_buckets, as the positions in the
\* collector of the metrics each bucket holds
StageBuckets(metrics) ==
  [s \in {metrics[i].stage_id : i \in 1..Len(metrics)} \ {NoStage} |->
     SelectSeq([i \in 1..Len(metrics) |-> i], LAMBDA i : metrics[i].stage_id = s)]

\* the metrics of one bucket
InBucket(metrics, s) ==
  LET bucket == StageBuckets(metrics)[s]
  IN [k \in 1..Len(bucket) |-> metrics[bucket[k]]]

\* reportgen/base.py lines 188-232 for a client that is absent ("no_client"),
\* collected nothing ("none") or returned metrics ("collected")
generate_prometheus_metrics_report(scrape) ==
  IF scrape = "collected"
  THEN << [name |-> <<"summary_prometheus_metrics", NoStage>>, contents |-> [successes |-> scrape]] >>
  ELSE <<>>

\* reportgen/base.py lines 138-186: the list of ReportFile it returns
lifecycle_reports(metrics, config, scrape) ==
  LET summary ==
        IF config.summary /\ Len(metrics) /= 0
        THEN << [name |-> <<"summary_lifecycle_metrics", NoStage>>,
                 contents |-> summarize_requests(metrics)] >>
        ELSE <<>>
      order == StageOrder(metrics)
      per_stage ==
        IF config.per_stage
        THEN [k \in 1..Len(order) |->
                [name |-> <<"stage_lifecycle_metrics", order[k]>>,
                 contents |-> summarize_requests(InBucket(metrics, order[k]))]]
        ELSE <<>>
      per_request ==
        IF config.per_request
        THEN << [name |-> <<"per_request_lifecycle_metrics", NoStage>>,
                 contents |-> [i \in 1..Len(metrics) |-> metrics[i].latency]] >>
        ELSE <<>>
  IN summary \o per_stage \o per_request \o generate_prometheus_metrics_report(scrape)

\* config.py lines 77-94, ObservedMetricsReportSummaryConfig.get_report
summary_get_report(metrics) ==
  [total_requests |-> Len(metrics),
   output_length |-> summarize(MapSeq(LAMBDA x : RatOfInt(safe_float(x.output_tokens)), metrics)),
   time_per_request |-> summarize(MapSeq(RequestLatency, metrics)),
   per_token_latency |-> summarize(MapSeq(PerTokenLatency, metrics))]

\* config.py lines 101-105: delattr raises AttributeError on an attribute that
\* an earlier call has deleted
DelattrRaises(metrics, config) ==
  \E i \in 1..Len(metrics) :
    \/ ~config.include_inputs /\ ~metrics[i].prompt
    \/ ~config.include_outputs /\ ~metrics[i].output

\* config.py lines 101-105: the metrics after the loop
Stripped(metrics, config) ==
  [i \in 1..Len(metrics) |->
     [metrics[i] EXCEPT
        !.prompt = IF config.include_inputs THEN @ ELSE FALSE,
        !.output = IF config.include_outputs THEN @ ELSE FALSE]]

ReportConfigs ==
  [summary : BOOLEAN, per_stage : BOOLEAN, per_request : BOOLEAN,
   include_inputs : {FALSE}, include_outputs : {FALSE}]

ObservedConfigs ==
  [summary : {TRUE}, per_stage : {FALSE}, per_request : BOOLEAN,
   include_inputs : BOOLEAN, include_outputs : BOOLEAN]

PromptConfig ==
  [summary |-> TRUE, per_stage |-> FALSE, per_request |-> FALSE,
   include_inputs |-> FALSE, include_outputs |-> FALSE]

ReportInit ==
  /\ rp_metrics = <<>>
  /\ rp_gen = "none"
  /\ rp_config = PromptConfig
  /\ rp_scrape = "none"
  /\ rp_before = <<>>
  /\ rp_out = <<>>

\* LocalRequestDataCollector.record_metric: append; the run records before any
\* report is generated
record_metric(metric) ==
  /\ rp_gen = "none"
  /\ Len(rp_metrics) < NumRecords
  /\ rp_metrics' = Append(rp_metrics, metric)
  /\ UNCHANGED <<rp_gen, rp_config, rp_scrape, rp_before, rp_out>>
  /\ UNCHANGED notReport

\* A report path runs for the first time with any configuration and scrape
\* result, and again with the same ones
Generation(gen, config, scrape) ==
  /\ Len(rp_out) < MaxRuns
  /\ \/ rp_gen = "none"
     \/ rp_gen = gen /\ rp_config = config /\ rp_scrape = scrape
  /\ rp_gen' = gen
  /\ rp_config' = config
  /\ rp_scrape' = scrape
  /\ rp_before' = IF rp_gen = "none" THEN rp_metrics ELSE rp_before

\* ReportGenerator.generate_reports, reportgen/base.py lines 138-186
generate_reports(config, scrape) ==
  /\ Generation("generate_reports", config, scrape)
  /\ rp_out' = Append(rp_out, [status |-> "returned",
                               reports |-> lifecycle_reports(rp_metrics, config, scrape)])
  /\ UNCHANGED rp_metrics
  /\ UNCHANGED notReport

\* ObservedMetricsReportConfig.get_report, config.py lines 114-126, with
\* ObservedMetricsReportPerRequestConfig.get_report, lines 100-106
get_report(config) ==
  /\ Generation("get_report", config, "none")
  /\ IF Len(rp_metrics) = 0
     THEN /\ rp_out' = Append(rp_out, [status |-> "none", reports |-> <<>>])
          /\ UNCHANGED rp_metrics
     ELSE IF config.per_request /\ DelattrRaises(rp_metrics, config)
     THEN /\ rp_out' = Append(rp_out, [status |-> "raised", reports |-> <<>>])
          /\ UNCHANGED rp_metrics
     ELSE LET after == IF config.per_request THEN Stripped(rp_metrics, config)
                       ELSE rp_metrics
          IN /\ rp_metrics' = after
             /\ rp_out' = Append(rp_out,
                  [status |-> "returned",
                   reports |-> [summary |-> summary_get_report(rp_metrics),
                                per_request |-> IF config.per_request THEN after ELSE <<>>]])
  /\ UNCHANGED notReport

\* LlmCompletionPrompt.summarize_requests over the collector, datagen/base.py lines 86-117
summarize_prompt_requests ==
  /\ Generation("summarize_requests", PromptConfig, "none")
  /\ rp_out' = Append(rp_out, [status |-> "returned",
                               reports |-> prompt_summarize_requests(rp_metrics)])
  /\ UNCHANGED rp_metrics
  /\ UNCHANGED notReport

ReportNext ==
  \/ \E metric \in RequestLifecycleMetric : record_metric(metric)
  \/ \E config \in ReportConfigs, scrape \in {"none", "collected"} :
       generate_reports(config, scrape)
  \/ \E config \in ObservedConfigs : get_report(config)
  \/ summarize_prompt_requests

(***************************************************************************)
(* ---------------------------------------------------------------------- *)
(* 7. Prometheus clients: execute_query of both clients, collect_raw_metrics *)
(* ---------------------------------------------------------------------- *)
(* A client is built for one target URL.  execute_query is run by the      *)
(* self-hosted and by the managed client against the same server response. *)
(* collect_raw_metrics sends one request to /federate or one request per   *)
(* query to the query endpoints; the dictionary it returns is kept as a    *)
(* function from metric names to the number of lines under that name.      *)
(***************************************************************************)
Targets == {"localhost:9090", "monitoring.googleapis.com"}
NoTime == -1    \* start_time / end_time is None

\* how the request to /federate can go
FederateResponses == {"exception", "not_200", "200_no_lines", "200_lines"}
\* how one request to the query endpoint can go
RawQueryResponses == {"exception", "not_200", "invalid_json", "no_results",
                      "short_value", "sample"}

\* google_managed_prometheus_client.py lines 57-69: self.url is not an
\* attribute of the client (base.py lines 173-177 set query_url,
\* query_range_url, federate_url and scrape_interval), so building the URL
\* raises AttributeError inside the try block and query_result is returned
gmp_execute_query(q) == 0

\* google_managed_prometheus_client.py lines 57-69: the handler returns
\* before response.json() is reached
GmpExecuteQueryRaises(q) == FALSE

\* The managed target not told apart from a self-hosted one
is_google_managed_never(url) == FALSE

\* base.py line 263
is_google_managed(url) == url = "monitoring.googleapis.com"

\* base.py line 264
is_range_query(start_time, end_time) == start_time /= NoTime /\ end_time /= NoTime

\* base.py lines 266-291: whether the /federate branch is entered
TriesFederate(url, start_time, end_time) ==
  ~is_range_query(start_time, end_time) /\ ~is_google_managed(url)

\* base.py lines 270-287: the dictionary returned from the /federate branch,
\* one name with the lines of the body, or {} for a body without metric lines
FederateMetrics(response) ==
  IF response = "200_lines" THEN [name \in {0} |-> 1] ELSE [name \in {} |-> 0]

\* base.py lines 299-308: queries_to_try, as the number of queries
NumQueries(url, tracked) == IF is_google_managed(url) /\ tracked > 0 THEN 1 + tracked ELSE 1

\* base.py lines 313-363: prom_metrics after the loop; the key of a result is
\* created (line 346) before its value is looked at (lines 349-361)
PromMetrics(responses) ==
  [name \in {j \in 1..Len(responses) : responses[j] \in {"short_value", "sample"}} |->
     IF responses[name] = "sample" THEN 1 ELSE 0]

\* base.py lines 365-368: a non-empty prom_metrics is returned, else None
RawResult(metrics) == [none |-> FALSE, metrics |-> metrics]
RawNone == [none |-> TRUE, metrics |-> [name \in {} |-> 0]]

ScrapeInit ==
  /\ s_url = "localhost:9090"
  /\ s_status = "idle"
  /\ s_start = NoTime
  /\ s_end = NoTime
  /\ s_requests = <<>>
  /\ s_lines = 0
  /\ s_result = RawNone
  /\ s_response = [kind |-> "none", value |-> 0]
  /\ s_self = [status |-> "idle", value |-> 0]
  /\ s_gmp = [status |-> "idle", value |-> 0]

\* PrometheusMetricsClient.__init__ / GoogleManagedPrometheusMetricsClient.__init__
Configure(url) ==
  /\ s_status = "idle" /\ s_self.status = "idle"
  /\ s_url /= url
  /\ s_url' = url
  /\ UNCHANGED <<s_status, s_start, s_end, s_requests, s_lines, s_result,
                 s_response, s_self, s_gmp>>
  /\ UNCHANGED notScrape

\* execute_query of the self-hosted client (base.py lines 421-485) and of the
\* managed client (google_managed_prometheus_client.py lines 38-85) for the
\* same server response
ExecuteQueryBoth(q) ==
  /\ s_self.status = "idle"
  /\ s_response' = q
  /\ s_self' = IF ExecuteQueryRaises(q) THEN [status |-> "raised", value |-> 0]
               ELSE [status |-> "returned", value |-> execute_query(q)]
  /\ s_gmp' = IF GmpExecuteQueryRaises(q) THEN [status |-> "raised", value |-> 0]
              ELSE [status |-> "returned", value |-> gmp_execute_query(q)]
  /\ UNCHANGED <<s_url, s_status, s_start, s_end, s_requests, s_lines, s_result>>
  /\ UNCHANGED notScrape

\* collect_raw_metrics, base.py lines 240-368
collect_raw_metrics(start_time, end_time, tracked, federate, responses) ==
  /\ s_status = "idle"
  /\ s_start' = start_time
  /\ s_end' = end_time
  /\ s_status' = "returned"
  /\ LET url == IF is_range_query(start_time, end_time)
                THEN "/api/v1/query_range" ELSE "/api/v1/query"
         fallback == [j \in 1..Len(responses) |-> url]
         prom_metrics == PromMetrics(responses)
     IN IF TriesFederate(s_url, start_time, end_time) /\ federate \in {"200_no_lines", "200_lines"}
        THEN /\ s_requests' = <<"/federate">>
             /\ s_result' = RawResult(FederateMetrics(federate))
             /\ s_lines' = IF federate = "200_lines" THEN 1 ELSE 0
        ELSE /\ s_requests' = (IF TriesFederate(s_url, start_time, end_time)
                               THEN <<"/federate">> ELSE <<>>) \o fallback
             /\ s_result' = IF DOMAIN prom_metrics /= {} THEN RawResult(prom_metrics)
                            ELSE RawNone
             /\ s_lines' = Cardinality({j \in 1..Len(responses) : responses[j] = "sample"})
  /\ UNCHANGED <<s_url, s_response, s_self, s_gmp>>
  /\ UNCHANGED notScrape

ScrapeNext ==
  \/ \E url \in Targets : Configure(url)
  \/ \E q \in QueryResults : ExecuteQueryBoth(q)
  \/ \E start_time \in {NoTime, 0}, end_time \in {NoTime, 1}, tracked \in 0..MaxTracked,
        federate \in FederateResponses :
       \E responses \in [1..NumQueries(s_url, tracked) -> RawQueryResponses] :
         collect_raw_metrics(start_time, end_time, tracked, federate, responses)

(***************************************************************************)
(* ---------------------------------------------------------------------- *)
(* 8. ErrorsReport                                                         *)
(* ---------------------------------------------------------------------- *)
(* Two reports, the one a worker's client fills and the one the totals are *)
(* merged into.  An exception is the set of the five classes tested by     *)
(* record_error that it is an instance of: a ClientConnectorError is also  *)
(* a ClientOSError, an exception of any other class is the empty set.      *)
(***************************************************************************)
ErrorReports == {"worker", "total"}
ErrorClasses == {"ClientConnectorError", "TimeoutError", "ContentTypeError",
                 "ClientOSError", "ServerDisconnectedError"}
\* aiohttp / asyncio: ClientConnectorError, TimeoutError (and ServerTimeoutError),
\* ContentTypeError, ClientOSError, ServerDisconnectedError, any other exception
Exceptions == {{"ClientConnectorError", "ClientOSError"}, {"TimeoutError"},
               {"ContentTypeError"}, {"ClientOSError"}, {"ServerDisconnectedError"}, {}}
ErrorCounters == {"ClientConnectorErrors", "TimeoutErrors", "ContentTypeErrors",
                  "ClientOSErrors", "ServerDisconnectedErrors", "unknown_errors"}

\* the counter that belongs to a class
CounterOf(class) ==
  CASE class = "ClientConnectorError" -> "ClientConnectorErrors"
    [] class = "TimeoutError" -> "TimeoutErrors"
    [] class = "ContentTypeError" -> "ContentTypeErrors"
    [] class = "ClientOSError" -> "ClientOSErrors"
    [] class = "ServerDisconnectedError" -> "ServerDisconnectedErrors"

\* Independent `if` tests instead of the elif chain: every matching class counts
CountersHitEveryMatch(error) ==
  IF error = {} THEN {"unknown_errors"} ELSE {CounterOf(class) : class \in error}

\* client.py lines 27-44: the isinstance chain, first match wins
CountersHit(error) ==
  IF "ClientConnectorError" \in error THEN {"ClientConnectorErrors"}
  ELSE IF "TimeoutError" \in error THEN {"TimeoutErrors"}
  ELSE IF "ContentTypeError" \in error THEN {"ContentTypeErrors"}
  ELSE IF "ClientOSError" \in error THEN {"ClientOSErrors"}
  ELSE IF "ServerDisconnectedError" \in error THEN {"ServerDisconnectedErrors"}
  ELSE {"unknown_errors"}

\* the sum of the six counters of a report
SumOfCounters(report) ==
  report.ClientConnectorErrors + report.TimeoutErrors + report.ContentTypeErrors
    + report.ClientOSErrors + report.ServerDisconnectedErrors + report.unknown_errors

\* client.py lines 15-21
ErrorsInit ==
  /\ e_counters = [r \in ErrorReports |-> [k \in ErrorCounters |-> 0]]
  /\ e_recorded = [r \in ErrorReports |-> 0]
  /\ e_merged = FALSE

\* ErrorsReport.record_error, client.py lines 26-44
record_error(r, error) ==
  /\ e_recorded[r] < MaxErrors
  /\ e_counters' = [e_counters EXCEPT ![r] =
       [k \in ErrorCounters |-> IF k \in CountersHit(error) THEN @[k] + 1 ELSE @[k]]]
  /\ e_recorded' = [e_recorded EXCEPT ![r] = @ + 1]
  /\ UNCHANGED e_merged
  /\ UNCHANGED notErrors

\* ErrorsReport.append_report, client.py lines 46-52
append_report(r, report) ==
  /\ e_recorded[r] + e_recorded[report] <= MaxErrors
  /\ e_recorded[report] > 0
  /\ e_counters' = [e_counters EXCEPT ![r] =
       [k \in ErrorCounters |-> @[k] + e_counters[report][k]]]
  /\ e_recorded' = [e_recorded EXCEPT ![r] = @ + e_recorded[report]]
  /\ e_merged' = TRUE
  /\ UNCHANGED notErrors

ErrorsNext ==
  \/ \E r \in ErrorReports, error \in Exceptions : record_error(r, error)
  \/ \E r, report \in ErrorReports : append_report(r, report)

(***************************************************************************)
(* ---------------------------------------------------------------------- *)
(* 9. InferencePerfRunner.save_reports                                     *)
(* ---------------------------------------------------------------------- *)
(* The runner holds a list of storage clients.  How save_report of each    *)
(* client ends is an input: it returns, or it fails by raising.            *)
(***************************************************************************)
SaveOutcomes == {"saved", "raised"}

StorageInit ==
  /\ st_clients = <<>>
  /\ st_reports = 0
  /\ st_asked = <<>>
  /\ st_status = "idle"

\* the position of the first storage client whose save_report raises, 0 if none
FirstRaising(clients) ==
  IF \E i \in 1..Len(clients) : clients[i] = "raised"
  THEN CHOOSE i \in 1..Len(clients) :
         /\ clients[i] = "raised"
         /\ \A j \in 1..(i - 1) : clients[j] /= "raised"
  ELSE 0

\* main.py lines 59-61: the loop over self.storage_clients; an exception of
\* save_report ends the loop and leaves save_reports
save_reports(clients, reports) ==
  /\ st_status = "idle"
  /\ st_clients' = clients
  /\ st_reports' = reports
  /\ LET first == FirstRaising(clients)
     IN /\ st_asked' = [i \in 1..Len(clients) |-> first = 0 \/ i <= first]
        /\ st_status' = IF first = 0 THEN "returned" ELSE "raised"
  /\ UNCHANGED notStorage

StorageNext ==
  \E clients \in UNION {[1..n -> SaveOutcomes] : n \in 0..MaxStorageClients},
     reports \in 0..MaxReports :
    save_reports(clients, reports)

(***************************************************************************)
(* ---------------------------------------------------------------------- *)
(* 10. SharedPrefixDataGenerator                                           *)
(* ---------------------------------------------------------------------- *)
(* A generator is constructed for an API type, with or without multi-turn  *)
(* chat, with num_groups groups of num_prompts_per_group prompts.  A user   *)
(* session is kept as the type of its context, "str" or "list": the        *)
(* sessions differ otherwise only in their id and prefix text, which the   *)
(* shuffle at the end of _generate_prompts permutes.  get_data is consumed *)
(* in order; each lazy item is then loaded and its payload built.          *)
(***************************************************************************)
APITypes == {"completion", "chat"}

\* shared_prefix_datagen.py lines 203-212: the initial context of a session
InitialContextType(api) == IF api = "chat" THEN "list" ELSE "str"

\* shared_prefix_datagen.py lines 181-219: one session per prompt in
\* multi-turn mode, none otherwise
UserSessions(api, multi, groups, per_group) ==
  IF multi THEN [u \in 1..(groups * per_group) |-> InitialContextType(api)] ELSE <<>>

\* One worker more than there are groups
PreferedWorkerIdOffByOne(i, groups) == i % (groups + 1)

\* shared_prefix_datagen.py line 148
PreferedWorkerId(i, groups) == i % groups

\* shared_prefix_datagen.py line 101
UserId(data_index, sessions) == data_index % Len(sessions)

\* shared_prefix_datagen.py line 102
Round(data_index, sessions) == data_index \div Len(sessions)

\* user_session.py lines 56-59 and 99-110: what building the payload of a
\* session request does with the context it gets
SessionPayload(kind, ctx) ==
  IF kind = "UserSessionCompletionAPIData" /\ ctx /= "str" THEN "raised" ELSE "built"

\* shared_prefix_datagen.py lines 51-76 and 221-223: one output length per
\* prompt; in multi-turn mode, where no step of the model reads the list, the
\* shortest one
OutputLens == {1, 2}
FlatOutputLens(multi, groups, per_group) ==
  IF multi THEN {[p \in 1..(groups * per_group) |-> 1]}
  ELSE [1..(groups * per_group) -> OutputLens]

\* self.output_len is assigned nowhere in shared_prefix_datagen.py (line 51
\* keeps the configured value in the local o_len): the attribute is missing
\* unless the base class provides it
Unset == 0

\* max_tokens=self.output_len, lines 125, 127, 157 and 160
SelfOutputLen(output_len) == IF output_len = Unset THEN "AttributeError" ELSE output_len

\* load_lazy_data in single-turn mode, lines 96-98 and 109-127
SingleTurnRequest(api, data_index, flat_output_lens, output_len) ==
  LET i == data_index % Len(flat_output_lens)
  IN IF api = "chat"
     THEN [kind |-> "ChatCompletionAPIData", content |-> i,
           max_tokens |-> flat_output_lens[i + 1]]
     ELSE IF output_len = Unset
     THEN [kind |-> "AttributeError", content |-> i, max_tokens |-> Unset]
     ELSE [kind |-> "CompletionAPIData", content |-> i,
           max_tokens |-> SelfOutputLen(output_len)]

DatagenInit ==
  /\ d_flat_output_lens = <<>>
  /\ d_output_len = Unset
  /\ d_loaded = <<>>
  /\ d_state = "none"
  /\ d_api = "completion"
  /\ d_multi = FALSE
  /\ d_groups = 0
  /\ d_per_group = 0
  /\ d_sessions = <<>>
  /\ d_index = 0
  /\ d_yielded = <<>>
  /\ d_requests = <<>>

\* SharedPrefixDataGenerator.__init__ with _generate_prompts, lines 18-82 and 170-234
NewDataGenerator(api, multi, groups, per_group, flat_output_lens, output_len) ==
  /\ d_state = "none"
  /\ flat_output_lens \in FlatOutputLens(multi, groups, per_group)
  /\ d_flat_output_lens' = flat_output_lens
  /\ d_output_len' = output_len
  /\ d_state' = "ready"
  /\ d_api' = api
  /\ d_multi' = multi
  /\ d_groups' = groups
  /\ d_per_group' = per_group
  /\ d_sessions' = UserSessions(api, multi, groups, per_group)
  /\ UNCHANGED <<d_index, d_yielded, d_requests, d_loaded>>
  /\ UNCHANGED notDatagen

\* next() on get_data, lines 141-161
get_data ==
  /\ d_state = "ready"
  /\ Len(d_yielded) < MaxData
  /\ IF d_groups * d_per_group = 0
     THEN /\ d_state' = "exhausted"
          /\ UNCHANGED <<d_index, d_yielded>>
     ELSE IF d_multi
     THEN /\ d_yielded' = Append(d_yielded,
               [kind |-> "LazyLoadInferenceAPIData", data_index |-> d_index,
                prefered_worker_id |-> PreferedWorkerId(d_index, d_groups)])
          /\ d_index' = d_index + 1
          /\ UNCHANGED d_state
     ELSE IF d_output_len = Unset
     THEN /\ d_state' = SelfOutputLen(d_output_len)
          /\ UNCHANGED <<d_index, d_yielded>>
     ELSE /\ d_yielded' = Append(d_yielded,
               [kind |-> IF d_api = "chat" THEN "ChatCompletionAPIData"
                         ELSE "CompletionAPIData",
                data_index |-> d_index, prefered_worker_id |-> -1])
          /\ d_index' = (d_index + 1) % (d_groups * d_per_group)
          /\ UNCHANGED d_state
  /\ UNCHANGED <<d_api, d_multi, d_groups, d_per_group, d_sessions, d_requests,
                 d_flat_output_lens, d_output_len, d_loaded>>
  /\ UNCHANGED notDatagen

\* load_lazy_data (lines 96-108) of the next yielded lazy item, then
\* to_payload of the request it returns and the update of the session context
\* by process_response / process_failure
LoadAndBuild ==
  /\ d_multi
  /\ Len(d_requests) < Len(d_yielded)
  /\ LET data == d_yielded[Len(d_requests) + 1]
         user_id == UserId(data.data_index, d_sessions)
         ctx == d_sessions[user_id + 1]
         kind == "UserSessionCompletionAPIData"
     IN /\ d_requests' = Append(d_requests,
             [kind |-> kind, data_index |-> data.data_index,
              prefered_worker_id |-> data.prefered_worker_id,
              user_id |-> user_id, target_round |-> Round(data.data_index, d_sessions),
              context |-> ctx,
              payload |-> SessionPayload(kind, ctx)])
        /\ UNCHANGED d_sessions
  /\ UNCHANGED <<d_state, d_api, d_multi, d_groups, d_per_group, d_index, d_yielded,
                 d_flat_output_lens, d_output_len, d_loaded>>
  /\ UNCHANGED notDatagen

\* load_lazy_data(LazyLoadInferenceAPIData(data_index)) in single-turn mode
load_lazy_data(data_index) ==
  /\ d_state /= "none"
  /\ ~d_multi
  /\ d_groups * d_per_group > 0
  /\ d_loaded' = [data_index |-> data_index,
                  result |-> SingleTurnRequest(d_api, data_index, d_flat_output_lens,
                                               d_output_len)]
  /\ UNCHANGED <<d_state, d_api, d_multi, d_groups, d_per_group, d_sessions, d_index,
                 d_yielded, d_requests, d_flat_output_lens, d_output_len>>
  /\ UNCHANGED notDatagen

DatagenNext ==
  \/ \E api \in APITypes, multi \in BOOLEAN, groups \in 0..MaxGroups,
        per_group \in 0..MaxPromptsPerGroup, output_len \in {Unset} \cup OutputLens :
       \E flat_output_lens \in FlatOutputLens(multi, groups, per_group) :
         NewDataGenerator(api, multi, groups, per_group, flat_output_lens, output_len)
  \/ get_data
  \/ LoadAndBuild
  \/ \E data_index \in 0..MaxData : load_lazy_data(data_index)

(***************************************************************************)
(* ---------------------------------------------------------------------- *)
(* 11. RandomDataGenerator and DatasetTraceDataGenerator                   *)
(* ---------------------------------------------------------------------- *)
(* The generator holds the lengths it was constructed with; get_data is    *)
(* advanced with next(), which yields a request, raises IndexError or ends *)
(* the generator (StopIteration).                                          *)
(***************************************************************************)
GeneratorKinds == {"random", "random_trace", "dataset_trace"}

\* Lists of 0..MaxCount token lengths, each 1..MaxTokenLen
LengthLists == UNION {[1..n -> 1..MaxTokenLen] : n \in 0..MaxCount}

RandomInit ==
  /\ g_kind = "none"
  /\ g_input_lengths = <<>>
  /\ g_output_lengths = <<>>
  /\ g_i = 0
  /\ g_last = <<>>
  /\ g_status = "none"

\* RandomDataGenerator.__init__ lines 38-59, without a trace: inputs and
\* outputs are the lists generate_distribution returns, one length per
\* total_count of the input and of the output distribution
NewRandom(inputs, outputs) ==
  /\ g_kind = "none"
  /\ Len(inputs) > 0 /\ Len(outputs) > 0
  /\ g_kind' = "random"
  /\ g_input_lengths' = inputs
  /\ g_output_lengths' = outputs
  /\ g_status' = "ready"
  /\ UNCHANGED <<g_i, g_last>>
  /\ UNCHANGED notRandom

\* RandomDataGenerator.__init__ lines 60-73, with a trace file of Len(inputs)
\* rows; DatasetTraceDataGenerator.__init__ lines 45-55, which refuses an
\* empty file
NewFromTrace(kind, inputs, outputs) ==
  /\ g_kind = "none"
  /\ kind \in {"random_trace", "dataset_trace"}
  /\ Len(inputs) = Len(outputs)
  /\ kind = "dataset_trace" => Len(inputs) > 0
  /\ g_kind' = kind
  /\ g_input_lengths' = inputs
  /\ g_output_lengths' = outputs
  /\ g_status' = "ready"
  /\ UNCHANGED <<g_i, g_last>>
  /\ UNCHANGED notRandom

\* next() on RandomDataGenerator.get_data, lines 117-125
random_get_data ==
  /\ g_kind \in {"random", "random_trace"}
  /\ g_status \in {"ready", "yielded"}
  /\ g_i < MaxNext
  /\ IF g_kind = "random"
     THEN IF g_i < Len(g_input_lengths) /\ g_i < Len(g_output_lengths)
          THEN /\ g_last' = <<g_input_lengths[g_i + 1], g_output_lengths[g_i + 1]>>
               /\ g_i' = g_i + 1
               /\ g_status' = "yielded"
          ELSE /\ g_status' = "IndexError"
               /\ UNCHANGED <<g_i, g_last>>
     ELSE IF g_i < Len(g_input_lengths)
          THEN /\ g_last' = <<g_input_lengths[g_i + 1], g_output_lengths[g_i + 1]>>
               /\ g_i' = g_i + 1
               /\ g_status' = "yielded"
          ELSE /\ g_status' = "StopIteration"
               /\ UNCHANGED <<g_i, g_last>>
  /\ UNCHANGED <<g_kind, g_input_lengths, g_output_lengths>>
  /\ UNCHANGED notRandom

\* next() on DatasetTraceDataGenerator.get_data (lines 88-92) and
\* load_lazy_data of the item (lines 71-78)
dataset_trace_get_data ==
  /\ g_kind = "dataset_trace"
  /\ g_status \in {"ready", "yielded"}
  /\ g_i < MaxNext
  /\ LET n == g_i % Len(g_input_lengths)
     IN g_last' = <<g_input_lengths[n + 1], g_output_lengths[n + 1]>>
  /\ g_i' = g_i + 1
  /\ g_status' = "yielded"
  /\ UNCHANGED <<g_kind, g_input_lengths, g_output_lengths>>
  /\ UNCHANGED notRandom

RandomNext ==
  \/ \E inputs, outputs \in LengthLists : NewRandom(inputs, outputs)
  \/ \E kind \in GeneratorKinds, inputs, outputs \in LengthLists :
       NewFromTrace(kind, inputs, outputs)
  \/ random_get_data
  \/ dataset_trace_get_data

(***************************************************************************)
(* ---------------------------------------------------------------------- *)
(* 12. HFShareGPTDataGenerator                                             *)
(* ---------------------------------------------------------------------- *)
(* The dataset is a list of items, each kept as what the filters of        *)
(* get_completion_data and get_chat_data see in it.  load_dataset returns  *)
(* the same list at every call; the iterator is the number of items        *)
(* consumed from the current load.                                         *)
(***************************************************************************)
ItemKinds == {"ok", "one_turn", "no_prompt", "out_of_range"}

Datasets == UNION {[1..n -> ItemKinds] : n \in 0..MaxItems}

\* hf_sharegpt_datagen.py lines 105-130 (completion) and 141-146 (chat)
PassesFilters(api, item) ==
  IF api = "chat" THEN item /= "one_turn" ELSE item = "ok"

\* _get_next_data without the except branch
get_next_data_noreload(dataset, pos, loads) ==
  IF pos < Len(dataset)
  THEN [raised |-> FALSE, item |-> pos + 1, pos |-> pos + 1, loads |-> loads]
  ELSE [raised |-> TRUE, item |-> 0, pos |-> pos, loads |-> loads]

\* _get_next_data, lines 74-86: the item (as its index in the dataset), the
\* iterator and the number of load_dataset calls afterwards; raised when the
\* reloaded iterator is exhausted at once
get_next_data(dataset, pos, loads) ==
  IF pos < Len(dataset)
  THEN [raised |-> FALSE, item |-> pos + 1, pos |-> pos + 1, loads |-> loads]
  ELSE IF Len(dataset) > 0
  THEN [raised |-> FALSE, item |-> 1, pos |-> 1, loads |-> loads + 1]
  ELSE [raised |-> TRUE, item |-> 0, pos |-> 0, loads |-> loads + 1]

\* The loop of get_completion_data / get_chat_data, lines 100-156, from the
\* state after `seen` items were taken in this next(): it ends at the first
\* item that passes the filters, raises if _get_next_data does, and never
\* ends if a whole pass over the dataset yields nothing
RECURSIVE NextRequest(_, _, _, _, _)
NextRequest(api, dataset, pos, loads, seen) ==
  IF Len(seen) > Len(dataset)
  THEN [status |-> "diverges", pos |-> pos, loads |-> loads, seen |-> seen]
  ELSE LET r == get_next_data(dataset, pos, loads)
       IN IF r.raised
          THEN [status |-> "raised", pos |-> r.pos, loads |-> r.loads, seen |-> seen]
          ELSE LET now == Append(seen, [item |-> r.item, loads |-> r.loads])
               IN IF PassesFilters(api, dataset[r.item])
                  THEN [status |-> "yielded", pos |-> r.pos, loads |-> r.loads,
                        seen |-> now]
                  ELSE NextRequest(api, dataset, r.pos, r.loads, now)

ShareGPTInit ==
  /\ h_state = "none"
  /\ h_api = "completion"
  /\ h_dataset = <<>>
  /\ h_pos = 0
  /\ h_loads = 0
  /\ h_taken = <<>>
  /\ h_examined = 0

\* HFShareGPTDataGenerator.__init__, lines 31-44: _load_dataset, then one
\* _get_next_data whose item is dropped
NewShareGPT(api, dataset) ==
  /\ h_state = "none"
  /\ LET r == get_next_data(dataset, 0, 1)
     IN /\ h_state' = IF r.raised THEN "raised" ELSE "ready"
        /\ h_pos' = r.pos
        /\ h_loads' = r.loads
  /\ h_api' = api
  /\ h_dataset' = dataset
  /\ UNCHANGED <<h_taken, h_examined>>
  /\ UNCHANGED notShareGPT

\* One call of _get_next_data on the constructed generator
next_data ==
  /\ h_state \in {"ready", "yielded"}
  /\ Len(h_taken) < MaxTaken
  /\ LET r == get_next_data(h_dataset, h_pos, h_loads)
     IN /\ h_pos' = r.pos
        /\ h_loads' = r.loads
        /\ h_taken' = Append(h_taken, [item |-> r.item, loads |-> r.loads])
  /\ UNCHANGED <<h_state, h_api, h_dataset, h_examined>>
  /\ UNCHANGED notShareGPT

\* next() on get_data, lines 91-98
sharegpt_get_data ==
  /\ h_state \in {"ready", "yielded"}
  /\ Len(h_taken) < MaxTaken
  /\ LET r == NextRequest(h_api, h_dataset, h_pos, h_loads, <<>>)
     IN /\ h_state' = r.status
        /\ h_pos' = r.pos
        /\ h_loads' = r.loads
        /\ h_taken' = h_taken \o r.seen
        /\ h_examined' = Len(r.seen)
  /\ UNCHANGED <<h_api, h_dataset>>
  /\ UNCHANGED notShareGPT

ShareGPTNext ==
  \/ \E api \in APITypes, dataset \in Datasets : NewShareGPT(api, dataset)
  \/ next_data
  \/ sharegpt_get_data

(***************************************************************************)
(* ---------------------------------------------------------------------- *)
(* 13. The user sessions of SharedPrefixDataGenerator                      *)
(* ---------------------------------------------------------------------- *)
(* The sessions _generate_prompts creates in multi-turn mode, each kept as *)
(* the number in its user_session_id and its group_id, and the order       *)
(* random.shuffle leaves them in.                                          *)
(***************************************************************************)
\* LocalUserSession.__init__, user_session.py lines 20-23: group_id is 0
\* unless the caller passes one
DefaultGroupId == 0

\* shared_prefix_datagen.py lines 181-218: the sessions in generation order;
\* LocalUserSession is called with user_session_id and context only
CreatedSessions(groups, per_group) ==
  [k \in 1..(groups * per_group) |->
     [user_session_id |-> k - 1, group_id |-> DefaultGroupId]]

\* The orders random.shuffle can leave a list of n items in
Shuffles(n) == {f \in [1..n -> 1..n] : \A a, b \in 1..n : f[a] = f[b] => a = b}

UserSessionsInit ==
  /\ u_state = "none"
  /\ u_groups = 0
  /\ u_per_group = 0
  /\ u_sessions = <<>>
  /\ u_picked = <<>>

\* _generate_prompts in multi-turn mode, lines 170-226
generate_prompts(groups, per_group, order) ==
  /\ u_state = "none"
  /\ order \in Shuffles(groups * per_group)
  /\ u_state' = "ready"
  /\ u_groups' = groups
  /\ u_per_group' = per_group
  /\ u_sessions' = [k \in 1..(groups * per_group) |->
                      CreatedSessions(groups, per_group)[order[k]]]
  /\ UNCHANGED u_picked
  /\ UNCHANGED notUserSessions

\* user_session=self.user_sessions[user_id] of load_lazy_data, lines 101-106
PickSession(data_index) ==
  /\ u_state = "ready"
  /\ Len(u_sessions) > 0
  /\ u_picked' = <<data_index, u_sessions[UserId(data_index, u_sessions) + 1]>>
  /\ UNCHANGED <<u_state, u_groups, u_per_group, u_sessions>>
  /\ UNCHANGED notUserSessions

UserSessionsNext ==
  \/ \E groups \in 1..MaxGroups, per_group \in 1..MaxPromptsPerGroup :
       \E order \in Shuffles(groups * per_group) :
         generate_prompts(groups, per_group, order)
  \/ \E data_index \in 0..MaxData : PickSession(data_index)

(***************************************************************************)
(* ---------------------------------------------------------------------- *)
(* 14. The per-stage query windows of the Prometheus metrics client         *)
(* ---------------------------------------------------------------------- *)
(* One run on a wall clock in whole seconds: main_cli fixes the interval   *)
(* between stages, the stages run one after the other and leave their      *)
(* StageRuntimeInfo, the report generator waits for the last scrape and    *)
(* then queries each stage.  The stage loop of the load generator is not  *)
(* under src/; it is taken from the stage boundary of the specification:   *)
(* a stage records its start_time and end_time, and the scheduler sleeps   *)
(* the interval before the next info.  time.sleep returns no earlier than *)
(* asked, and may return later.                                            *)
(***************************************************************************)
\* prometheus_client/base.py line 23
PROMETHEUS_SCRAPE_BUFFER_SEC == 2

\* main.py lines 141-144: the interval the load generator is built with
load_interval(interval, scrape_interval, per_stage) ==
  IF per_stage
    THEN IF interval >= scrape_interval THEN interval ELSE scrape_interval
    ELSE interval

\* PrometheusMetricsClient.wait with the buffer left out
wait_time_no_buffer(scrape_interval) == scrape_interval

\* PrometheusMetricsClient.wait, base.py line 186
wait_time(scrape_interval) == scrape_interval + PROMETHEUS_SCRAPE_BUFFER_SEC

\* collect_metrics_for_stage, base.py line 236
query_eval_time(info, scrape_interval) ==
  info.end_time + scrape_interval + PROMETHEUS_SCRAPE_BUFFER_SEC

\* collect_metrics_for_stage, base.py line 237
query_duration(info, scrape_interval) ==
  query_eval_time(info, scrape_interval) - info.start_time

StageWindowInit ==
  /\ q_pc = "config"
  /\ q_now = 0
  /\ q_interval = 0
  /\ q_scrape_interval = 0
  /\ q_per_stage = FALSE
  /\ q_num_stages = 0
  /\ q_start = 0
  /\ q_stages = <<>>
  /\ q_queries = <<>>

\* main.py lines 86-144: the configuration of one run
NewRun(interval, scrape_interval, per_stage, num_stages) ==
  /\ q_pc = "config"
  /\ q_interval' = load_interval(interval, scrape_interval, per_stage)
  /\ q_scrape_interval' = scrape_interval
  /\ q_per_stage' = per_stage
  /\ q_num_stages' = num_stages
  /\ q_pc' = "start"
  /\ UNCHANGED <<q_now, q_start, q_stages, q_queries>>
  /\ UNCHANGED notStageWindow

\* The stage begins to dispatch: its start_time is the time now
StartOfStage ==
  /\ q_pc = "start"
  /\ q_start' = q_now
  /\ q_pc' = "stage"
  /\ UNCHANGED <<q_now, q_interval, q_scrape_interval, q_per_stage,
                 q_num_stages, q_stages, q_queries>>
  /\ UNCHANGED notStageWindow

\* The stage has run for `seconds` and drained: its StageRuntimeInfo is
\* emitted (metricsclient/base.py lines 24-28)
FinishStage(seconds) ==
  /\ q_pc = "stage"
  /\ q_now' = q_now + seconds
  /\ q_stages' = Append(q_stages, [stage_id |-> Len(q_stages),
                                   start_time |-> q_start,
                                   end_time |-> q_now + seconds])
  /\ q_pc' = IF Len(q_stages) + 1 < q_num_stages THEN "sleep" ELSE "ran"
  /\ UNCHANGED <<q_interval, q_scrape_interval, q_per_stage, q_num_stages,
                 q_start, q_queries>>
  /\ UNCHANGED notStageWindow

\* The sleep of the interval between two stages
SleepInterval(late) ==
  /\ q_pc = "sleep"
  /\ q_now' = q_now + q_interval + late
  /\ q_pc' = "start"
  /\ UNCHANGED <<q_interval, q_scrape_interval, q_per_stage, q_num_stages,
                 q_start, q_stages, q_queries>>
  /\ UNCHANGED notStageWindow

\* main.py lines 151-168 and reportgen/base.py lines 198-204: the run is
\* over, the report generator calls wait(); `late` is the time spent before
\* the call and the time the sleep returns late
wait(late) ==
  /\ q_pc = "ran"
  /\ q_now' = q_now + wait_time(q_scrape_interval) + late
  /\ q_pc' = "waited"
  /\ UNCHANGED <<q_interval, q_scrape_interval, q_per_stage, q_num_stages,
                 q_start, q_stages, q_queries>>
  /\ UNCHANGED notStageWindow

\* reportgen/base.py lines 217-219 and base.py lines 232-238: the next stage
\* of runtime_parameters.stages is queried at the time now; the query takes
\* `elapsed`
collect_metrics_for_stage(elapsed) ==
  /\ q_pc = "waited"
  /\ q_per_stage
  /\ Len(q_queries) < Len(q_stages)
  /\ LET info == q_stages[Len(q_queries) + 1]
     IN q_queries' = Append(q_queries,
          [stage_id |-> info.stage_id,
           eval_time |-> query_eval_time(info, q_scrape_interval),
           duration |-> query_duration(info, q_scrape_interval),
           issued_at |-> q_now])
  /\ q_now' = q_now + elapsed
  /\ UNCHANGED <<q_pc, q_interval, q_scrape_interval, q_per_stage,
                 q_num_stages, q_start, q_stages>>
  /\ UNCHANGED notStageWindow

\* reportgen/base.py lines 217 and 232: no stage is left, or per_stage is off
ReturnReports ==
  /\ q_pc = "waited"
  /\ q_per_stage => Len(q_queries) = Len(q_stages)
  /\ q_pc' = "reported"
  /\ UNCHANGED <<q_now, q_interval, q_scrape_interval, q_per_stage,
                 q_num_stages, q_start, q_stages, q_queries>>
  /\ UNCHANGED notStageWindow

StageWindowNext ==
  \/ \E interval \in 1..MaxInterval, scrape_interval \in 1..MaxScrapeInterval,
        per_stage \in BOOLEAN, num_stages \in 1..MaxRunStages :
       NewRun(interval, scrape_interval, per_stage, num_stages)
  \/ StartOfStage
  \/ \E seconds \in 1..MaxStageSeconds : FinishStage(seconds)
  \/ \E late \in 0..MaxLate : SleepInterval(late)
  \/ \E late \in 0..MaxLate : wait(late)
  \/ \E elapsed \in 0..MaxLate : collect_metrics_for_stage(elapsed)
  \/ ReturnReports

(***************************************************************************)
(* Properties of the user session                                          *)
(***************************************************************************)
Admitted == {r \in Rounds : pc[r] \in {"http", "responded"}}
Waiting == {r \in Rounds : pc[r] \in {"await_future", "woken_future", "await_lock", "woken_lock"}}

\* C1: rounds are admitted in the order in which they called get_context:
\* the admission history is always a prefix of the call history, so no round
\* is admitted while a round that called get_context earlier still waits.
C1_FifoAdmission ==
  /\ Len(admitOrder) <= Len(callOrder)
  /\ admitOrder = SubSeq(callOrder, 1, Len(admitOrder))

\* C2: at most one round of the session is between get_context and
\* update_context, every admitted round but the last has called
\* update_context, and each round read the context written by the round
\* admitted immediately before it (the initial context for the first).
C2_OneRoundInFlight ==
  /\ Cardinality(Admitted) <= 1
  /\ \A i \in 1..Len(admitOrder) :
       /\ i < Len(admitOrder) => releases[admitOrder[i]] >= 1
       /\ session_context[admitOrder[i]] =
            IF i = 1 THEN InitialContext ELSE written[admitOrder[i - 1]]

\* C2 witness: a round that had to wait is in flight with the context a
\* successful earlier round wrote, while another round is still waiting.
C2_Witness ==
  \E r \in Rounds, q \in Rounds :
    /\ pc[r] = "http" /\ Len(admitOrder) >= 2
    /\ session_context[r] /= InitialContext
    /\ pc[q] \in {"await_future", "await_lock"}

C26_FailedRoundLeavesContext ==
  \A r \in Rounds :
    (pc[r] = "done" /\ outcome[r] = "fail") => written[r] = session_context[r]

\* C26 witness: a round that received the context written by a successful
\* round has failed, and the session context is the one it received.
C26_Witness ==
  \E r \in Rounds :
    /\ pc[r] = "done" /\ outcome[r] = "fail"
    /\ session_context[r] /= InitialContext
    /\ context = session_context[r]

\* C27: every round that has called get_context and waits is eventually
\* admitted or is itself cancelled, also when other waiting rounds are
\* cancelled.
C27_WaitingRoundIsAdmitted ==
  \A r \in Rounds :
    (pc[r] \in {"await_future", "woken_future", "await_lock", "woken_lock"})
      ~> (pc[r] \in {"http", "cancelled"})

(***************************************************************************)
(* Properties of the stage configuration and the schedule generators       *)
(***************************************************************************)
\* C6: every schedule generator yields a non-decreasing sequence of times,
\* also after a trace-driven generator has cycled back to the start of its
\* trace: a yielded time is never below the time yielded before it.
C6_NonDecreasingTimes == t_count >= 2 => RatLeq(t_prev, t_next)

\* C7: a ConstantLoadTimer with rate r and duration D never yields more than
\* floor(r*D) times; once it has terminated it has yielded exactly floor(r*D)
\* times, nothing when that is 0, and otherwise its last time is initial + D.
C7_ConstantCountAndSpan ==
  t_kind = "constant" =>
    /\ 2 * t_count <= t_rate * t_duration
    /\ t_pc = "finished" =>
         /\ t_rate * t_duration < 2 * t_count + 2
         /\ t_count > 0 => t_next = RatOfInt(t_initial + t_duration)

\* C7 witness: a terminated constant timer whose r*D is not an integer, that
\* yielded at least twice, the time before the last not being a whole second.
C7_Witness ==
  /\ t_kind = "constant" /\ t_pc = "finished"
  /\ (t_rate * t_duration) % 2 = 1
  /\ t_count >= 2
  /\ t_prev[2] > 1

\* C9: a stage with rate 0 that has been through validation is rejected, and
\* no schedule generator is started for it.
C9_ZeroRateRejected ==
  (stage_status /= "none" /\ stage.rate = 0) =>
    (stage_status = "rejected" /\ t_kind = "none")


(***************************************************************************)
(* Properties of the worker caps, the client and the metrics collection    *)
(***************************************************************************)
\* C4: in a closed-loop stage with concurrency C the requests dispatched and
\* not yet completed, summed over all workers, never exceed C, whatever the
\* interleaving of pick-ups and completions and while the caps are rewritten.
C4_InFlightWithinConcurrency == TotalInFlight <= w_conc

\* C4 witness: a second stage with a smaller concurrency is running at its
\* full concurrency, spread over more than one worker.
C4_Witness ==
  /\ w_phase = "issuing" /\ w_stages = 2
  /\ w_conc >= 2 /\ TotalInFlight = w_conc
  /\ \E w \in Workers : w_inflight[w] > 0 /\ w_inflight[w] < w_conc
  /\ \E w \in Workers : w_cap[w] = 0

\* C8: once a global concurrency N is set over W workers, worker i holds
\* ceil(N/W) if i < N mod W and floor(N/W) otherwise; the caps sum to N,
\* differ by at most 1, and with N < W the last W - N workers hold 0.
C8_CapsPartitionConcurrency ==
  w_phase \in {"issuing", "draining"} =>
    /\ \A i \in Workers :
         w_cap[i] = IF i < w_conc % NumWorkers
                    THEN (w_conc + NumWorkers - 1) \div NumWorkers
                    ELSE w_conc \div NumWorkers
    /\ TotalCap = w_conc
    /\ \A i \in Workers, j \in Workers : w_cap[i] - w_cap[j] <= 1
    /\ w_conc < NumWorkers => \A i \in Workers : i >= w_conc => w_cap[i] = 0

\* C8 witness: a concurrency that does not divide evenly has been set, after
\* a stage whose concurrency was below the number of workers.
C8_Witness ==
  /\ w_phase = "issuing" /\ w_stages = 2
  /\ w_conc > NumWorkers /\ w_conc % NumWorkers /= 0

\* C5: every request whose processing has ended returned without raising and
\* has exactly one metric record.
C5_OneRecordPerRequest ==
  \A r \in Requests :
    c_state[r] \in {"returned", "raised"} =>
      /\ c_state[r] = "returned"
      /\ Cardinality({i \in 1..Len(request_metrics) : request_metrics[i] = r}) = 1

\* C10: after a collection, the metric of every failed query is null, and a
\* failed query never makes the collection itself fail.
C10_FailedQueryIsNull ==
  /\ p_status /= "raised"
  /\ p_status = "collected" =>
       \A m \in Metrics : p_queries[m].kind /= "value" => p_metrics[m] = Null

(***************************************************************************)
(* Claims about the collector and the reports                              *)
(***************************************************************************)
\* the reports of one run that summarize one stage
StageReports(reports) ==
  SelectSeq(reports, LAMBDA r : r.name[1] = "stage_lifecycle_metrics")

RECURSIVE SumOfCounts(_)
SumOfCounts(reports) ==
  IF reports = <<>> THEN 0
  ELSE Head(reports).contents.load_summary.count + SumOfCounts(Tail(reports))

SuccessRecords(metrics) == SelectSeq(metrics, LAMBDA x : ~x.error)
FailureRecords(metrics) == SelectSeq(metrics, LAMBDA x : x.error)

C12_SuccessesAndFailuresSeparated ==
  rp_gen = "summarize_requests" =>
    \A k \in 1..Len(rp_out) :
      LET summary == rp_out[k].reports
          ok == SuccessRecords(rp_before)
          failed == FailureRecords(rp_before)
      IN /\ summary.successes.count = Len(ok)
         /\ summary.successes.time_per_request = summarize(MapSeq(RequestLatency, ok))
         /\ summary.successes.output_len =
              summarize(MapSeq(OutputLen, SelectSeq(ok, HasOutputTokens)))
         /\ summary.successes.per_token_latency = summarize(MapSeq(PerTokenLatency, ok))
         /\ summary.failures.count = Len(failed)
         /\ summary.failures.time_per_request = summarize(MapSeq(RequestLatency, failed))
         /\ summary.successes.count + summary.failures.count = summary.load_summary.count

\* C13: any two report generations from the same recorded metrics and scrape
\* results return equal output, and the recorded metrics are what they were
\* before the first generation.
C13_ReportGenerationIsPure ==
  /\ \A a, b \in 1..Len(rp_out) :
       /\ rp_out[a].status = rp_out[b].status
       /\ rp_out[a].reports = rp_out[b].reports
  /\ Len(rp_out) > 0 => rp_metrics = rp_before

(***************************************************************************)
(* Claims about the Prometheus clients                                     *)
(***************************************************************************)
\* C14: for every server response the managed client's execute_query returns
\* the value that the self-hosted client's execute_query returns for it, and
\* neither of the two raises.
C14_ManagedEqualsSelfHosted ==
  s_self.status /= "idle" =>
    /\ s_self.status = "returned"
    /\ s_gmp.status = "returned"
    /\ s_gmp.value = s_self.value

\* C15: collect_raw_metrics contacts /federate only for a target that is not
\* on monitoring.googleapis.com and only when no time range (start and end)
\* is given; for a managed target or a range query every request, fallbacks
\* included, goes to /api/v1/query or /api/v1/query_range, the range endpoint
\* exactly for range queries.
C15_FederateOnlySelfHostedInstant ==
  s_status = "returned" =>
    LET managed == s_url = "monitoring.googleapis.com"
        range == s_start /= NoTime /\ s_end /= NoTime
    IN /\ (\E i \in 1..Len(s_requests) : s_requests[i] = "/federate") =>
            ~managed /\ ~range
       /\ (managed \/ range) =>
            \A i \in 1..Len(s_requests) :
              s_requests[i] = (IF range THEN "/api/v1/query_range" ELSE "/api/v1/query")

\* C15 witness: an instant collection from a managed target that went through
\* the general query and at least one per-metric query.
C15_Witness ==
  /\ s_status = "returned"
  /\ s_url = "monitoring.googleapis.com"
  /\ s_start = NoTime
  /\ Len(s_requests) >= 2
  /\ s_lines >= 1

\* C16: collect_raw_metrics never raises, returns None whenever it collected
\* no metric line, and a result that is not None holds at least one metric.
C16_RawNoneWhenNothingCollected ==
  /\ s_status /= "raised"
  /\ s_status = "returned" =>
       /\ s_lines = 0 => s_result.none
       /\ ~s_result.none => DOMAIN s_result.metrics /= {}

(***************************************************************************)
(* Claims about saving reports and counting errors                         *)
(***************************************************************************)
\* C17: a storage client whose save_report fails does not make save_reports
\* fail, and every configured storage client is asked to save the reports.
C17_SaveFailureIsContained ==
  st_status /= "idle" =>
    /\ st_status = "returned"
    /\ \A i \in 1..Len(st_clients) : st_asked[i]

\* C18: in every report the six counters sum to the number of errors recorded
\* into it, merged reports included, and a step that records one error into a
\* report raises exactly one of its counters, by one, and lowers none.
C18_CountersSumToRecorded ==
  /\ [](\A r \in ErrorReports : SumOfCounters(e_counters[r]) = e_recorded[r])
  /\ [][\A r \in ErrorReports :
          e_recorded'[r] = e_recorded[r] + 1 =>
            \E k \in ErrorCounters :
              /\ e_counters'[r][k] = e_counters[r][k] + 1
              /\ \A other \in ErrorCounters \ {k} :
                   e_counters'[r][other] = e_counters[r][other]]_vars

\* C18 witness: the totals hold a merged worker report and an error recorded
\* directly, among them a connection error, which is also a ClientOSError.
C18_Witness ==
  /\ e_merged
  /\ e_recorded["worker"] >= 1
  /\ e_recorded["total"] > e_recorded["worker"]
  /\ e_counters["total"].ClientConnectorErrors >= 1
  /\ e_counters["total"].ClientOSErrors = 0

(***************************************************************************)
(* Claims about the shared prefix data generator                           *)
(***************************************************************************)
\* C19: in multi-turn mode any two requests that resolve to the same user
\* session carry the same prefered_worker_id.
C19_SessionKeepsOneWorker ==
  \A a, b \in 1..Len(d_requests) :
    d_requests[a].user_id = d_requests[b].user_id =>
      d_requests[a].prefered_worker_id = d_requests[b].prefered_worker_id

\* C19 witness: with two groups of two prompts, the first and the second round
\* of one session have been loaded, a session that is not on worker 0.
C19_Witness ==
  /\ d_groups = 2 /\ d_per_group = 2
  /\ \E a, b \in 1..Len(d_requests) :
       /\ d_requests[a].user_id = d_requests[b].user_id
       /\ d_requests[a].target_round = 0
       /\ d_requests[b].target_round = 1
       /\ d_requests[a].prefered_worker_id = 1

\* C20: a completion-type session request only ever gets a string context and
\* a chat-type session request only ever gets a message-list context, so the
\* payload of a multi-turn request is always built.
C20_ContextMatchesApiType ==
  \A k \in 1..Len(d_requests) :
    /\ d_requests[k].kind = "UserSessionCompletionAPIData" => d_requests[k].context = "str"
    /\ d_requests[k].kind = "UserSessionChatAPIData" => d_requests[k].context = "list"
    /\ d_requests[k].payload = "built"

\* C25: the Poisson timer works in consecutive one-second windows starting at
\* the initial time: window number n starts at initial + (n - 1), empty windows
\* included, every arrival lies inside the window it was drawn for, and a
\* window emits as many arrivals as were drawn for it.
C25_PoissonWindows ==
  (t_kind = "poisson" /\ t_window.begun >= 1) =>
    /\ t_window.start = RatOfInt(t_initial + t_window.begun - 1)
    /\ RatLeq(t_window.start, t_next)
    /\ RatLeq(t_next, RatAdd(t_window.start, RatOfInt(1)))
    /\ t_window.emitted + Len(t_pending) = t_window.k

\* C25 witness: at least three windows were begun, one of them empty (more
\* windows than arrivals), three arrivals were yielded and the first arrival
\* of the current window is the last one yielded.
C25_Witness ==
  /\ t_kind = "poisson"
  /\ t_window.begun >= 3
  /\ t_count >= 3
  /\ t_window.begun > t_count
  /\ t_window.emitted = 1

\* C23: in single-turn mode, for both API types and every data_index,
\* load_lazy_data returns a request of the type of the API whose content is
\* entry i = data_index mod len(prompts) and whose max_tokens is
\* flat_output_lens[i].
C23_SingleTurnRequestMatchesEntry ==
  d_loaded /= <<>> =>
    LET i == d_loaded.data_index % Len(d_flat_output_lens)
    IN /\ d_loaded.result.kind =
            (IF d_api = "chat" THEN "ChatCompletionAPIData" ELSE "CompletionAPIData")
       /\ d_loaded.result.content = i
       /\ d_loaded.result.max_tokens = d_flat_output_lens[i + 1]

(***************************************************************************)
(* Claims about the random and the dataset trace data generators           *)
(***************************************************************************)
\* C21: get_data of every data generator can be advanced without bound: no
\* next() raises or ends the generator, also not after total_count requests.
C21_GetDataNeverEnds == g_status \notin {"IndexError", "StopIteration"}

(***************************************************************************)
(* Claims about the ShareGPT data generator                                *)
(***************************************************************************)
\* C22: after construction the k-th item taken from the dataset is item
\* (k-1) mod N of the dataset, starting with the first item, and load_dataset
\* has then been called once plus once for every exhaustion of the iterator.
C22_ItemsInDatasetOrder ==
  \A k \in 1..Len(h_taken) :
    /\ h_taken[k].item = ((k - 1) % Len(h_dataset)) + 1
    /\ h_taken[k].loads = 1 + ((k - 1) \div Len(h_dataset))

\* C30: when the dataset has a conversation that passes the filters, a next()
\* on get_data yields after examining at most one pass over the dataset, also
\* across a reload; it neither raises nor runs forever.
C30_NextExaminesFinitelyMany ==
  (/\ h_state \in {"yielded", "diverges", "raised"}
   /\ \E k \in 1..Len(h_dataset) : h_dataset[k] = "ok")
    => /\ h_state = "yielded"
       /\ h_examined <= Len(h_dataset)

\* C30 witness: a next() yielded after skipping an item and reloading the
\* dataset on the way.
C30_Witness ==
  /\ h_state = "yielded"
  /\ h_examined >= 2
  /\ h_loads >= 2
  /\ \E k \in 1..Len(h_dataset) : h_dataset[k] /= "ok"
  /\ h_taken[Len(h_taken)].item < h_taken[Len(h_taken) - 1].item

\* C24: in multi-turn mode with G groups of P prompts the generator holds G*P
\* user sessions in generation order: user_sessions[i] has the id
\* user_session_i and the group_id i div P.
C24_SessionsInGenerationOrder ==
  u_state = "ready" =>
    /\ Len(u_sessions) = u_groups * u_per_group
    /\ \A i \in 0..(Len(u_sessions) - 1) :
         /\ u_sessions[i + 1].user_session_id = i
         /\ u_sessions[i + 1].group_id = i \div u_per_group

(***************************************************************************)
(* C28: with per-stage Prometheus reporting on, the query window of stage  *)
(* k, from its start_time to its end_time + scrape_interval + buffer, ends *)
(* no later than the start of stage k+1.                                   *)
(***************************************************************************)
C28_WindowEndsBeforeNextStage ==
  q_per_stage =>
    \A k \in 1..(Len(q_stages) - 1) :
      query_eval_time(q_stages[k], q_scrape_interval) <= q_stages[k + 1].start_time

(***************************************************************************)
(* C29: every per-stage query is issued at a wall-clock time not earlier   *)
(* than its eval_time, which is the stage's end_time plus the amount the   *)
(* report generator waited after the last stage.                           *)
(***************************************************************************)
C29_QueryNotBeforeEvalTime ==
  \A i \in 1..Len(q_queries) :
    /\ q_queries[i].eval_time = q_stages[i].end_time + wait_time(q_scrape_interval)
    /\ q_queries[i].issued_at >= q_queries[i].eval_time

\* Two stages have been queried, the last of them at its eval_time exactly
C29_Witness ==
  /\ Len(q_queries) = 2
  /\ q_queries[2].issued_at = q_queries[2].eval_time
  /\ q_queries[1].issued_at > q_queries[1].eval_time

(***************************************************************************)
(* Specifications                                                          *)
(***************************************************************************)
Init ==
  /\ SessionInit /\ TimerInit /\ WorkersInit /\ ClientInit /\ PromInit
  /\ ReportInit /\ ScrapeInit /\ ErrorsInit /\ StorageInit /\ DatagenInit /\ RandomInit /\ ShareGPTInit /\ UserSessionsInit /\ StageWindowInit

Next ==
  \/ SessionNext \/ TimerNext \/ WorkersNext \/ ClientNext \/ PromNext
  \/ ReportNext \/ ScrapeNext \/ ErrorsNext \/ StorageNext \/ DatagenNext \/ RandomNext \/ ShareGPTNext \/ UserSessionsNext \/ StageWindowNext

Spec == Init /\ [][Next]_vars
SpecSession == Init /\ [][SessionNext]_vars
SpecSessionCancel == Init /\ [][SessionCancelNext]_vars /\ SessionFairness
SpecTimer == Init /\ [][TimerNext]_vars
SpecWorkers == Init /\ [][WorkersNext]_vars
SpecClient == Init /\ [][ClientNext]_vars
SpecProm == Init /\ [][PromNext]_vars
SpecReport == Init /\ [][ReportNext]_vars
SpecScrape == Init /\ [][ScrapeNext]_vars
SpecErrors == Init /\ [][ErrorsNext]_vars
SpecStorage == Init /\ [][StorageNext]_vars
SpecDatagen == Init /\ [][DatagenNext]_vars
SpecRandom == Init /\ [][RandomNext]_vars
SpecShareGPT == Init /\ [][ShareGPTNext]_vars
SpecUserSessions == Init /\ [][UserSessionsNext]_vars
SpecStageWindow == Init /\ [][StageWindowNext]_vars

=============================================================================
